---- MODULE Spec2Model ----
(***************************************************************************)
(* A model of cyberdaemon's daemon Controllers (package control): the      *)
(* systemd, System V, launchd and Windows implementations of               *)
(* Status / Install / Uninstall / Start / Stop, run against a model of the *)
(* host's daemon manager.                                                  *)
(*                                                                         *)
(* State: the ControllerConfig and host a Controller was built from (cfg,  *)
(* host), the Controller's fields (ctl), the host's daemon-manager state   *)
(* (sys: identity artifact, its contents, the daemon's native state, the   *)
(* auto-start setting, launchd's job table, the Windows Event Log source), *)
(* and the record of the last and the previous Controller call (last,      *)
(* prev), holding what the call returned and every file-system or native   *)
(* call it made, in order.                                                 *)
(*                                                                         *)
(* Further state: the last control.Execute call (ex), and the run of a     *)
(* Daemonizer's RunUntilExit in the daemon's own process (dz).             *)
(***************************************************************************)
EXTENDS Integers, Sequences, FiniteSets, TLC

VARIABLES cfg, host, ctl, sys, last, prev, ex, dz, sw, hf

vars == <<cfg, host, ctl, sys, last, prev, ex, dz, sw, hf>>

-----------------------------------------------------------------------------
(* Bounds of the model.                                                    *)

\* The longest Arguments list of a ControllerConfig.
MaxArgs == 1

-----------------------------------------------------------------------------
(* The Status / Command / StartType vocabulary.                            *)

Unknown == "unknown"
Running == "running"
Stopped == "stopped"
StoppedDead == "stopped_dead"
Starting == "starting"
Stopping == "stopping"
Resuming == "resuming"
Pausing == "pausing"
Paused == "paused"
NotInstalled == "not_installed"

StartImmediately == "start_immediately"
StartOnLoad == "start_on_load"
ManualStart == "manual"

StartTypes == {StartImmediately, StartOnLoad, ManualStart}

\* The zero value of Status, returned next to a non-nil error.
NoStatus == ""

\* The nil error.
Nil == "nil"

-----------------------------------------------------------------------------
(* Small helpers on strings and sequences.                                 *)

RECURSIVE Join(_, _)
\* strings.Join(elems, sep)
Join(elems, sep) ==
    IF Len(elems) = 0 THEN ""
    ELSE IF Len(elems) = 1 THEN elems[1]
    ELSE elems[1] \o sep \o Join(Tail(elems), sep)

\* ControllerConfig.argumentsAsString
argumentsAsString(config) ==
    IF Len(config.Arguments) = 0 THEN "" ELSE Join(config.Arguments, " ")

\* Mutant of ControllerConfig.Validate: every configuration is accepted.
Validate_AcceptAll(config) == Nil

\* ControllerConfig.Validate
Validate(config) ==
    IF Len(config.ExePath) = 0
    THEN "executable path must be provided to controller config"
    ELSE Nil

-----------------------------------------------------------------------------
(* The host: file system, native tools and the daemon manager.             *)

\* The native states a daemon can be in, per daemon manager. On Linux they
\* are named after what the status query answers; on Windows they are the
\* states of svc.State, "Other" standing for a value outside that list.
LinuxDaemonStates == {"running", "stopped", "dead", "other"}
WindowsDaemonStates ==
    {"Stopped", "StartPending", "StopPending", "Running",
     "ContinuePending", "PausePending", "Paused", "Other"}
LaunchdDaemonStates == {"running", "stopped"}

DaemonStates(kind) ==
    CASE kind \in {"systemd", "systemv"} -> LinuxDaemonStates
      [] kind = "windows" -> WindowsDaemonStates
      [] OTHER -> LaunchdDaemonStates

\* The state a daemon is in when it does not run.
IdleState(kind) == IF kind = "windows" THEN "Stopped" ELSE "stopped"

\* One record of a call made while a Controller method runs.
\*   kind: "fs" (file system), "cli" (native command-line tool),
\*         "scm" (Windows service manager), "lib" (launchctlutil),
\*         "cb" (a callback of the configuration)
\*   data: what a successful write stores (the file's contents, the service's
\*         registration, the launchd configuration), <<>> for other calls
CallD(kind, tool, args, exitCode, data) ==
    [kind |-> kind, tool |-> tool, args |-> args, exitCode |-> exitCode,
     data |-> data]

Call(kind, tool, args, exitCode) == CallD(kind, tool, args, exitCode, <<>>)

\* What a Controller method hands back: the host state it leaves, the values
\* it returns and the calls it made.
Ret(s, status, err, calls) ==
    [sys |-> s, status |-> status, err |-> err, calls |-> calls]

\* os.Stat on the identity artifact's path.
OsStat(s, path) ==
    [err |-> s.artifact = "absent",
     isDir |-> s.artifact = "dir",
     call |-> Call("fs", "os.Stat", <<path>>,
                   IF s.artifact = "absent" THEN 1 ELSE 0)]

\* Mutant of ioutil.WriteFile: reports success and stores nothing.
WriteFile_Dropped(s, path, data, allowed) ==
    [err |-> FALSE,
     sys |-> s,
     call |-> CallD("fs", "ioutil.WriteFile", <<path>>, 0, data)]

\* ioutil.WriteFile on the identity artifact's path: creates or truncates the
\* file and writes data; it fails on a directory, or when the host refuses.
WriteFile(s, path, data, allowed) ==
    LET ok == allowed /\ s.artifact # "dir" IN
    [err |-> ~ok,
     sys |-> IF ok THEN [s EXCEPT !.artifact = "file", !.contents = data]
             ELSE s,
     call |-> CallD("fs", "ioutil.WriteFile", <<path>>, IF ok THEN 0 ELSE 1,
                    IF ok THEN data ELSE <<>>)]

\* os.Remove on the identity artifact's path: removes a file or an (empty)
\* directory; it fails when nothing is there, or when the host refuses.
OsRemove(s, path, allowed) ==
    LET ok == allowed /\ s.artifact # "absent" IN
    [err |-> ~ok,
     sys |-> IF ok THEN [s EXCEPT !.artifact = "absent", !.contents = <<>>]
             ELSE s,
     call |-> Call("fs", "os.Remove", <<path>>, IF ok THEN 0 ELSE 1)]

\* The exit code of the native status query (systemctl status <id>,
\* service <id> status) for a daemon in native state d.
StatusExitCode(d) ==
    CASE d = "running" -> 0
      [] d = "stopped" -> 3
      [] d = "dead" -> 1
      [] OTHER -> 4

\* What a native tool's verb does to the host when it exits with exitCode:
\* a successful start leaves the daemon running, a successful stop leaves it
\* stopped, a successful enable / disable sets the auto-start setting; a
\* failed command changes nothing.
NativeEffect(s, verb, exitCode) ==
    IF exitCode # 0 THEN s
    ELSE CASE verb = "start" -> [s EXCEPT !.daemon = "running"]
           [] verb = "stop" -> [s EXCEPT !.daemon = "stopped"]
           [] verb \in {"enable", "on", "defaults"} ->
                [s EXCEPT !.autoStart = "enabled"]
           [] verb \in {"off", "disable"} ->
                [s EXCEPT !.autoStart = "disabled"]
           [] OTHER -> s

\* The decimal text of an exit code, as exec.ExitError prints it.
ExitText(n) ==
    CASE n = 0 -> "0" [] n = 1 -> "1" [] n = 3 -> "3" [] n = 4 -> "4"
      [] OTHER -> "?"

\* osutil.RunDaemonCli: runs exePath with args; err is set exactly when the
\* command did not exit with 0, and the exit code is kept next to it.
RunDaemonCli(s, exePath, args, verb, exitCode) ==
    [sys |-> NativeEffect(s, verb, exitCode),
     exitCode |-> exitCode,
     err |-> IF exitCode # 0
             THEN "failed to execute '" \o exePath \o " [" \o Join(args, " ")
                      \o "]' - exit status " \o ExitText(exitCode)
             ELSE Nil,
     call |-> Call("cli", exePath, args, exitCode)]

-----------------------------------------------------------------------------
(* The systemd Controller.                                                 *)

systemctlExeName == "systemctl"
userArgument == "--user"
daemonReloadCommand == "daemon-reload"

\* What the host decides during one Controller call: whether a file write or
\* removal is allowed, and the exit code of each native command.
CmdExitCodes == {0, 1}

\* The inputs of each systemd Controller method.
SystemdInstallInputs ==
    [write : BOOLEAN, reload : CmdExitCodes, start : CmdExitCodes,
     enable : CmdExitCodes]
SystemdUninstallInputs ==
    [stop : CmdExitCodes, remove : BOOLEAN, reload : CmdExitCodes]
StartInputs == [start : CmdExitCodes]
StopInputs == [stop : CmdExitCodes]

RECURSIVE SectionsOf(_, _)
\* The sections of a list of unit options, in the order they first appear.
SectionsOf(opts, seen) ==
    IF Len(opts) = 0 THEN <<>>
    ELSE IF Head(opts).Section \in seen THEN SectionsOf(Tail(opts), seen)
    ELSE <<Head(opts).Section>>
             \o SectionsOf(Tail(opts), seen \cup {Head(opts).Section})

RECURSIVE OptionLines(_, _)
\* The "Name=Value" lines of the options of one section, in order.
OptionLines(opts, section) ==
    IF Len(opts) = 0 THEN <<>>
    ELSE (IF Head(opts).Section = section
          THEN <<Head(opts).Name \o "=" \o Head(opts).Value>>
          ELSE <<>>) \o OptionLines(Tail(opts), section)

RECURSIVE SerializeSections(_, _)
SerializeSections(opts, sections) ==
    IF Len(sections) = 0 THEN <<>>
    ELSE <<"[" \o Head(sections) \o "]">>
             \o OptionLines(opts, Head(sections))
             \o (IF Len(sections) > 1 THEN <<"">> ELSE <<>>)
             \o SerializeSections(opts, Tail(sections))

\* unit.Serialize, as the lines of the unit file: for each section, in the
\* order the sections first appear, a "[Section]" header and the section's
\* options as "Name=Value" lines, with a blank line between two sections.
Serialize(opts) == SerializeSections(opts, SectionsOf(opts, {}))

UnitOption(section, name, value) ==
    [Section |-> section, Name |-> name, Value |-> value]

\* runSettings (systemd): whether User= goes into the unit file, the unit
\* file path, whether systemctl needs '--user', and the error.
SystemdRunSettings(config, h) ==
    LET defaultUnitPath == "/etc/systemd/system/" \o config.DaemonID \o ".service" IN
    IF Len(config.RunAs) = 0
    THEN [addUserToUnit |-> FALSE, unitFilePath |-> defaultUnitPath,
          specifyUserArg |-> FALSE, err |-> Nil]
    ELSE IF ~h.userOk
    THEN [addUserToUnit |-> FALSE, unitFilePath |-> "",
          specifyUserArg |-> FALSE, err |-> "failed to get current user"]
    ELSE IF config.RunOnlyWhenLoggedIn
    THEN IF config.RunAs = h.currentUser
         THEN [addUserToUnit |-> FALSE,
               unitFilePath |-> h.homeDir \o "/.config/systemd/user/"
                                   \o config.DaemonID \o ".service",
               specifyUserArg |-> TRUE, err |-> Nil]
         ELSE [addUserToUnit |-> FALSE, unitFilePath |-> "",
               specifyUserArg |-> FALSE,
               err |-> "the 'run_only_when_logged_in' option cannot be used when the curret user is not the RunAs user"]
    ELSE [addUserToUnit |-> TRUE, unitFilePath |-> defaultUnitPath,
          specifyUserArg |-> FALSE, err |-> Nil]

\* newSystemdController
newSystemdController(exePath, config, systemctlPath, h) ==
    LET command == IF Len(config.Arguments) > 0
                   THEN exePath \o " " \o argumentsAsString(config)
                   ELSE exePath
        unitOptions ==
            << UnitOption("Unit", "Description", config.Description),
               UnitOption("Service", "Type", "simple"),
               UnitOption("Service", "ExecStart", command),
               UnitOption("Service", "Restart", "on-failure"),
               UnitOption("Install", "WantedBy", "multi-user.target") >>
        rs == SystemdRunSettings(config, h)
        allOptions == IF rs.addUserToUnit
                      THEN unitOptions \o <<UnitOption("Service", "User", config.RunAs)>>
                      ELSE unitOptions
    IN IF rs.err # Nil THEN [kind |-> "none", err |-> rs.err]
       ELSE [kind |-> "systemd", err |-> Nil,
             systemctlPath |-> systemctlPath,
             daemonID |-> config.DaemonID,
             unitFilePath |-> rs.unitFilePath,
             unitContents |-> Serialize(allOptions),
             addUserArg |-> rs.specifyUserArg,
             startType |-> config.StartType]

\* Mutant of the leading arguments of a systemctl call: never '--user'.
SystemdUserArgs_Never(o) == <<>>

\* The leading arguments of every systemctl call: '--user' when addUserArg.
SystemdUserArgs(o) == IF o.addUserArg THEN <<userArgument>> ELSE <<>>

\* The exit-code switch at the end of systemdController.Status.
SystemdExitStatus(r) ==
    IF r.err # Nil /\ r.exitCode = 3 THEN Stopped
    ELSE IF r.err # Nil /\ r.exitCode = 1 THEN StoppedDead
    ELSE IF r.exitCode = 0 THEN Running
    ELSE Unknown

\* Mutant of systemdController.Status: asks systemctl without looking for
\* the unit file first.
SystemdStatus_NoStat(o, s) ==
    LET args == SystemdUserArgs(o) \o <<"status", o.daemonID>>
        r == RunDaemonCli(s, o.systemctlPath, args, "status",
                          StatusExitCode(s.daemon))
    IN Ret(r.sys, SystemdExitStatus(r), Nil, <<r.call>>)

\* systemdController.Status
SystemdStatus(o, s) ==
    LET st == OsStat(s, o.unitFilePath) IN
    IF st.err \/ st.isDir THEN Ret(s, NotInstalled, Nil, <<st.call>>)
    ELSE LET args == SystemdUserArgs(o) \o <<"status", o.daemonID>>
             r == RunDaemonCli(s, o.systemctlPath, args, "status",
                               StatusExitCode(s.daemon))
         IN Ret(r.sys, SystemdExitStatus(r), Nil, <<st.call, r.call>>)

\* systemdController.Start
SystemdStart(o, s, in) ==
    LET args == SystemdUserArgs(o) \o <<"start", o.daemonID>>
        r == RunDaemonCli(s, o.systemctlPath, args, "start", in.start)
    IN Ret(r.sys, NoStatus, r.err, <<r.call>>)

\* systemdController.Stop
SystemdStop(o, s, in) ==
    LET args == SystemdUserArgs(o) \o <<"stop", o.daemonID>>
        r == RunDaemonCli(s, o.systemctlPath, args, "stop", in.stop)
    IN Ret(r.sys, NoStatus, r.err, <<r.call>>)

\* Mutant of the StartOnLoad case of systemdController.Install: removes the
\* unit file again when systemctl enable fails.
SystemdInstallEnable_Rollback(o, s, in, calls) ==
    LET r == RunDaemonCli(s, o.systemctlPath,
                          SystemdUserArgs(o) \o <<"enable", o.daemonID>>,
                          "enable", in.enable)
        rm == OsRemove(r.sys, o.unitFilePath, TRUE)
    IN IF r.err # Nil
       THEN Ret(rm.sys, NoStatus, r.err, calls \o <<r.call, rm.call>>)
       ELSE Ret(r.sys, NoStatus, r.err, calls \o <<r.call>>)

\* The StartOnLoad case of systemdController.Install: systemctl enable.
SystemdInstallEnable(o, s, in, calls) ==
    LET r == RunDaemonCli(s, o.systemctlPath,
                          SystemdUserArgs(o) \o <<"enable", o.daemonID>>,
                          "enable", in.enable)
    IN Ret(r.sys, NoStatus, r.err, calls \o <<r.call>>)

\* Mutant of the StartImmediately case of systemdController.Install: enables
\* auto-start before it starts the daemon.
SystemdInstallImmediately_EnableFirst(o, s, in, calls) ==
    LET reload == RunDaemonCli(s, o.systemctlPath,
                               SystemdUserArgs(o) \o <<daemonReloadCommand>>,
                               daemonReloadCommand, in.reload)
    IN IF reload.err # Nil
       THEN Ret(reload.sys, NoStatus, reload.err, calls \o <<reload.call>>)
       ELSE LET enabled == SystemdInstallEnable(o, reload.sys, in,
                                                calls \o <<reload.call>>)
            IN IF enabled.err # Nil THEN enabled
               ELSE LET started == SystemdStart(o, enabled.sys, in) IN
                    Ret(started.sys, NoStatus, started.err,
                        enabled.calls \o started.calls)

\* The StartImmediately case of systemdController.Install: daemon-reload,
\* Start(), then fall through to the StartOnLoad case.
SystemdInstallImmediately(o, s, in, calls) ==
    LET reload == RunDaemonCli(s, o.systemctlPath,
                               SystemdUserArgs(o) \o <<daemonReloadCommand>>,
                               daemonReloadCommand, in.reload)
    IN IF reload.err # Nil
       THEN Ret(reload.sys, NoStatus, reload.err, calls \o <<reload.call>>)
       ELSE LET started == SystemdStart(o, reload.sys, in)
                soFar == calls \o <<reload.call>> \o started.calls
            IN IF started.err # Nil
               THEN Ret(started.sys, NoStatus, started.err, soFar)
               ELSE SystemdInstallEnable(o, started.sys, in, soFar)

\* Mutant of systemdController.Install: appends the unit to what the unit
\* file already holds instead of replacing it, and does nothing else.
SystemdInstall_Append(o, s, in) ==
    LET w == WriteFile(s, o.unitFilePath, s.contents \o o.unitContents, in.write) IN
    IF w.err
    THEN Ret(w.sys, NoStatus, "failed to write systemd unit file", <<w.call>>)
    ELSE Ret(w.sys, NoStatus, Nil, <<w.call>>)

\* systemdController.Install
SystemdInstall(o, s, in) ==
    LET w == WriteFile(s, o.unitFilePath, o.unitContents, in.write) IN
    IF w.err
    THEN Ret(w.sys, NoStatus, "failed to write systemd unit file", <<w.call>>)
    ELSE CASE o.startType = StartImmediately ->
                SystemdInstallImmediately(o, w.sys, in, <<w.call>>)
           [] o.startType = StartOnLoad ->
                SystemdInstallEnable(o, w.sys, in, <<w.call>>)
           [] OTHER -> Ret(w.sys, NoStatus, Nil, <<w.call>>)

\* systemdController.Uninstall
SystemdUninstall(o, s, in) ==
    LET stopped == SystemdStop(o, s, in)
        rm == OsRemove(stopped.sys, o.unitFilePath, in.remove)
    IN IF rm.err
       THEN Ret(rm.sys, NoStatus, "remove " \o o.unitFilePath,
                stopped.calls \o <<rm.call>>)
       ELSE LET r == RunDaemonCli(rm.sys, o.systemctlPath,
                                  SystemdUserArgs(o) \o <<daemonReloadCommand>>,
                                  daemonReloadCommand, in.reload)
            IN Ret(r.sys, NoStatus, r.err,
                   stopped.calls \o <<rm.call, r.call>>)

-----------------------------------------------------------------------------
(* The System V Controller.                                                *)

serviceExeName == "service"
chkconfigExeName == "chkconfig"
updatercdExeName == "update-rc.d"
serviceExeDirPaths == <<"/sbin", "/usr/sbin">>

placeholderDelim == "^"
serviceNamePlaceholder == placeholderDelim \o "NAME" \o placeholderDelim
shortDescriptionPlaceholder == placeholderDelim \o "SHORT_DESCRIPTION" \o placeholderDelim
descriptionPlaceholder == placeholderDelim \o "DESCRIPTION" \o placeholderDelim
exePathPlaceholder == placeholderDelim \o "EXE_PATH" \o placeholderDelim
argumentsPlaceholder == placeholderDelim \o "ARGUMENTS" \o placeholderDelim
logFilePathPlaceholder == placeholderDelim \o "LOG_FILE_PATH" \o placeholderDelim
pidFilePathPlaceholder == placeholderDelim \o "PID_FILE_PATH" \o placeholderDelim
runAsPlaceholder == placeholderDelim \o "RUN_AS" \o placeholderDelim

pidFilePathVar == "PID_FILE_PATH"

Placeholders ==
    {serviceNamePlaceholder, shortDescriptionPlaceholder, descriptionPlaceholder,
     exePathPlaceholder, argumentsPlaceholder, logFilePathPlaceholder,
     pidFilePathPlaceholder, runAsPlaceholder}

\* systemvTemplate, cut into pieces at its placeholders: every placeholder of
\* the template in order, each with the literal text that leads to it. The
\* line breaks around the placeholders are kept; the placeholder-free lines
\* in between are shortened to a line "...".
systemvTemplate ==
    << "#!/bin/bash\n...\n# Provides: ", serviceNamePlaceholder,
       "\n...\n# Short-Description: ", shortDescriptionPlaceholder,
       "\n# Description:       ", descriptionPlaceholder,
       "\n...\nPROGRAM_NAME='", serviceNamePlaceholder,
       "'\nPROGRAM_PATH='", exePathPlaceholder,
       "'\nARGUMENTS='", argumentsPlaceholder,
       "'\nRUN_AS='", runAsPlaceholder,
       "'\n...\n" \o pidFilePathVar \o "='", pidFilePathPlaceholder,
       "'\n...\n    local logFilePath=\"", logFilePathPlaceholder,
       "\"\n...\nexit $?\n" >>

\* Whether a piece of text holds the placeholder delimiter.
HoldsDelim(piece) ==
    \E i \in 1..Len(piece) : SubSeq(piece, i, i) = placeholderDelim

\* strings.NewReplacer(old1, new1, ...).Replace: every occurrence of a
\* placeholder is replaced by its value, the text of a value is not looked at
\* again; pairs maps each placeholder to its value.
Replace(template, pairs) ==
    [i \in 1..Len(template) |->
        IF template[i] \in DOMAIN pairs THEN pairs[template[i]] ELSE template[i]]

\* Mutant of strings.Contains(script, placeholderDelim): never found.
ContainsDelim_Never(script) == FALSE

\* strings.Contains(script, placeholderDelim)
ContainsDelim(script) == \E i \in 1..Len(script) : HoldsDelim(script[i])

\* defaultPidFilePath
defaultPidFilePath(serviceName) == "/var/run/" \o serviceName \o ".pid"

RECURSIVE searchFrom(_, _, _, _)
searchFrom(exeName, dirSearchPaths, i, files) ==
    IF i > Len(dirSearchPaths)
    THEN [path |-> "",
          err |-> "failed to locate '" \o exeName
                    \o "' executable in the following directory paths: ["
                    \o Join(dirSearchPaths, " ") \o "]"]
    ELSE LET filePath == dirSearchPaths[i] \o "/" \o exeName IN
         IF filePath \in files THEN [path |-> filePath, err |-> Nil]
         ELSE searchFrom(exeName, dirSearchPaths, i + 1, files)

\* osutil.searchForExeInPaths: the first directory that holds a file named
\* exeName; files are the regular files of the host.
searchForExeInPaths(exeName, dirSearchPaths, files) ==
    searchFrom(exeName, dirSearchPaths, 1, files)

\* osutil.ChkconfigPath
ChkconfigPath(h) == searchForExeInPaths(chkconfigExeName, serviceExeDirPaths, h.files)

\* osutil.UpdatercdPath
UpdatercdPath(h) == searchForExeInPaths(updatercdExeName, serviceExeDirPaths, h.files)

\* newSystemvController
newSystemvController(config, serviceExePath, isRedHat, h) ==
    LET logFilePath ==
            IF config.UseNativeLogger
            THEN "/var/log/" \o config.DaemonID \o "/" \o config.DaemonID \o ".log"
            ELSE ""
        pairs ==
            (serviceNamePlaceholder :> config.DaemonID)
            @@ (shortDescriptionPlaceholder :> (config.DaemonID \o " daemon."))
            @@ (descriptionPlaceholder :> config.Description)
            @@ (exePathPlaceholder :> config.ExePath)
            @@ (argumentsPlaceholder :> argumentsAsString(config))
            @@ (runAsPlaceholder :> config.RunAs)
            @@ (logFilePathPlaceholder :> logFilePath)
            @@ (pidFilePathPlaceholder :> defaultPidFilePath(config.DaemonID))
        script == Replace(systemvTemplate, pairs)
        enableCliTool == IF isRedHat THEN ChkconfigPath(h) ELSE UpdatercdPath(h)
    IN IF Validate(config) # Nil THEN [kind |-> "none", err |-> Validate(config)]
       ELSE IF ContainsDelim(script)
       THEN [kind |-> "none",
             err |-> "failed to replace all placeholders in daemon init.d script"]
       ELSE IF enableCliTool.err # Nil
       THEN [kind |-> "none", err |-> enableCliTool.err]
       ELSE [kind |-> "systemv", err |-> Nil,
             servicePath |-> serviceExePath,
             daemonID |-> config.DaemonID,
             initContents |-> script,
             initFilePath |-> "/etc/init.d/" \o config.DaemonID,
             startType |-> config.StartType,
             isRedHat |-> isRedHat,
             chkconfig |-> enableCliTool.path,
             updatercd |-> enableCliTool.path]

\* The inputs of each System V Controller method.
SystemvInstallInputs ==
    [write : BOOLEAN, start : CmdExitCodes, enable : CmdExitCodes,
     disable : CmdExitCodes]
SystemvUninstallInputs == [stop : CmdExitCodes, remove : BOOLEAN]

\* Mutant of the exit-code switch of systemvController.Status: exit code 1
\* is not told apart from the other failures.
SystemvExitStatus_DeadIsUnknown(r) ==
    IF r.err # Nil /\ r.exitCode = 3 THEN Stopped
    ELSE IF r.exitCode = 0 THEN Running
    ELSE Unknown

\* The exit-code switch at the end of systemvController.Status.
SystemvExitStatus(r) ==
    IF r.err # Nil /\ r.exitCode = 3 THEN Stopped
    ELSE IF r.err # Nil /\ r.exitCode = 1 THEN StoppedDead
    ELSE IF r.exitCode = 0 THEN Running
    ELSE Unknown

\* Mutant of systemvController.Status: runs the status query before it looks
\* for the init script.
SystemvStatus_QueryFirst(o, s) ==
    LET r == RunDaemonCli(s, o.servicePath, <<o.daemonID, "status">>,
                          "status", StatusExitCode(s.daemon))
        st == OsStat(s, o.initFilePath)
    IN IF st.err \/ st.isDir THEN Ret(s, NotInstalled, Nil, <<r.call, st.call>>)
       ELSE Ret(r.sys, SystemvExitStatus(r), Nil, <<r.call, st.call>>)

\* systemvController.Status
SystemvStatus(o, s) ==
    LET st == OsStat(s, o.initFilePath) IN
    IF st.err \/ st.isDir THEN Ret(s, NotInstalled, Nil, <<st.call>>)
    ELSE LET r == RunDaemonCli(s, o.servicePath, <<o.daemonID, "status">>,
                               "status", StatusExitCode(s.daemon))
         IN Ret(r.sys, SystemvExitStatus(r), Nil, <<st.call, r.call>>)

\* systemvController.Start
SystemvStart(o, s, in) ==
    LET r == RunDaemonCli(s, o.servicePath, <<o.daemonID, "start">>,
                          "start", in.start)
    IN Ret(r.sys, NoStatus, r.err, <<r.call>>)

\* systemvController.Stop
SystemvStop(o, s, in) ==
    LET r == RunDaemonCli(s, o.servicePath, <<o.daemonID, "stop">>,
                          "stop", in.stop)
    IN Ret(r.sys, NoStatus, r.err, <<r.call>>)

\* The StartOnLoad case of systemvController.Install: chkconfig <id> on on a
\* Red Hat host, update-rc.d <id> defaults otherwise.
SystemvInstallEnable(o, s, in, calls) ==
    LET r == IF o.isRedHat
             THEN RunDaemonCli(s, o.chkconfig, <<o.daemonID, "on">>, "on", in.enable)
             ELSE RunDaemonCli(s, o.updatercd, <<o.daemonID, "defaults">>,
                               "defaults", in.enable)
    IN Ret(r.sys, NoStatus, r.err, calls \o <<r.call>>)

\* Mutant of the ManualStart case of systemvController.Install: leaves the
\* host's default, auto-start, in place.
SystemvInstallDisable_Skipped(o, s, in, calls) ==
    Ret(s, NoStatus, Nil, calls)

\* The ManualStart case of systemvController.Install: chkconfig <id> off on a
\* Red Hat host, update-rc.d <id> disable otherwise.
SystemvInstallDisable(o, s, in, calls) ==
    LET r == IF o.isRedHat
             THEN RunDaemonCli(s, o.chkconfig, <<o.daemonID, "off">>, "off", in.disable)
             ELSE RunDaemonCli(s, o.updatercd, <<o.daemonID, "disable">>,
                               "disable", in.disable)
    IN Ret(r.sys, NoStatus, r.err, calls \o <<r.call>>)

\* Mutant of the StartImmediately case of systemvController.Install: enables
\* auto-start without starting the daemon.
SystemvInstallImmediately_NoStart(o, s, in, calls) ==
    SystemvInstallEnable(o, s, in, calls)

\* The StartImmediately case of systemvController.Install: Start(), then fall
\* through to the StartOnLoad case.
SystemvInstallImmediately(o, s, in, calls) ==
    LET started == SystemvStart(o, s, in) IN
    IF started.err # Nil
    THEN Ret(started.sys, NoStatus, started.err, calls \o started.calls)
    ELSE SystemvInstallEnable(o, started.sys, in, calls \o started.calls)

\* systemvController.Install
SystemvInstall(o, s, in) ==
    LET w == WriteFile(s, o.initFilePath, o.initContents, in.write) IN
    IF w.err
    THEN Ret(w.sys, NoStatus, "failed to write init.d script file", <<w.call>>)
    ELSE CASE o.startType = StartImmediately ->
                SystemvInstallImmediately(o, w.sys, in, <<w.call>>)
           [] o.startType = StartOnLoad ->
                SystemvInstallEnable(o, w.sys, in, <<w.call>>)
           [] o.startType = ManualStart ->
                SystemvInstallDisable(o, w.sys, in, <<w.call>>)
           [] OTHER -> Ret(w.sys, NoStatus, Nil, <<w.call>>)

\* Mutant of systemvController.Uninstall: gives up when Stop() fails.
SystemvUninstall_StopFatal(o, s, in) ==
    LET stopped == SystemvStop(o, s, in)
        rm == OsRemove(stopped.sys, o.initFilePath, in.remove)
    IN IF stopped.err # Nil THEN stopped
       ELSE Ret(rm.sys, NoStatus,
                IF rm.err THEN "remove " \o o.initFilePath ELSE Nil,
                stopped.calls \o <<rm.call>>)

\* systemvController.Uninstall
SystemvUninstall(o, s, in) ==
    LET stopped == SystemvStop(o, s, in)
        rm == OsRemove(stopped.sys, o.initFilePath, in.remove)
    IN Ret(rm.sys, NoStatus,
           IF rm.err THEN "remove " \o o.initFilePath ELSE Nil,
           stopped.calls \o <<rm.call>>)

-----------------------------------------------------------------------------
(* The Windows Controller.                                                 *)

notInstalledErr == "The specified service does not exist as an installed service."

\* What the host decides during one call of the Windows Controller: whether
\* the manager accepts the connection, the open, the query, the creation, the
\* deletion and the Event Log change; whether the password provider answers;
\* how a start ends ("fail", or the state the service is in when Start
\* returns) and how a stop-and-wait ends.
StopOutcomes == {"controlErr", "stopped", "queryErr", "timeout"}

StartOutcomes == {"fail", "StartPending", "Running"}

\* The inputs of each Windows Controller method. Inputs that differ only in
\* the outcome of a call the method does not get to make are one input: the
\* outcomes after a refused call are left at their first value.
WindowsStatusInputs ==
    {in \in [connect : BOOLEAN, open : BOOLEAN, query : BOOLEAN] :
        /\ ~in.connect => in.open /\ in.query
        /\ ~in.open => in.query}

WindowsInstallInputs ==
    {in \in [connect : BOOLEAN, password : BOOLEAN, create : BOOLEAN,
             start : StartOutcomes, delete : BOOLEAN, event : BOOLEAN] :
        /\ ~(in.connect /\ in.password /\ in.create) =>
              in.start = "Running" /\ in.delete /\ in.event
        /\ ~in.connect => in.password /\ in.create
        /\ ~in.password => in.create
        /\ in.start = "fail" => in.event
        /\ (in.start # "fail" /\ in.event) => in.delete}

WindowsUninstallInputs ==
    {in \in [connect : BOOLEAN, open : BOOLEAN, stop : StopOutcomes,
             delete : BOOLEAN, event : BOOLEAN] :
        /\ ~(in.connect /\ in.open) =>
              in.stop = "stopped" /\ in.delete /\ in.event
        /\ ~in.connect => in.open
        /\ ~in.delete => in.event}

WindowsStartInputs ==
    {in \in [connect : BOOLEAN, open : BOOLEAN, start : StartOutcomes] :
        /\ ~(in.connect /\ in.open) => in.start = "Running"
        /\ ~in.connect => in.open}

WindowsStopInputs ==
    {in \in [connect : BOOLEAN, open : BOOLEAN, stop : StopOutcomes] :
        /\ ~(in.connect /\ in.open) => in.stop = "stopped"
        /\ ~in.connect => in.open}

\* mgr.Connect
MgrConnect(allowed) ==
    [err |-> IF allowed THEN Nil ELSE "Access is denied.",
     call |-> Call("scm", "mgr.Connect", <<>>, IF allowed THEN 0 ELSE 1)]

\* Mgr.OpenService: fails with the manager's "does not exist" text when no
\* service of that name is registered, or with another error when refused.
OpenService(s, name, allowed) ==
    LET err == IF ~allowed THEN "Access is denied."
               ELSE IF s.artifact = "absent" THEN notInstalledErr
               ELSE Nil
    IN [err |-> err,
        call |-> Call("scm", "OpenService", <<name>>,
                      IF err = Nil THEN 0
                      ELSE IF err = notInstalledErr THEN 1060 ELSE 5)]

\* Service.Query: the service's current state.
ServiceQuery(s, allowed) ==
    [err |-> IF allowed THEN Nil ELSE "query failed",
     state |-> s.daemon,
     call |-> Call("scm", "Query", IF allowed THEN <<s.daemon>> ELSE <<>>,
                   IF allowed THEN 0 ELSE 1)]

\* Mgr.CreateService: registers the service, stopped, with the given
\* configuration; fails when the name is taken or when refused.
CreateService(s, name, exePath, c, args, allowed) ==
    LET ok == allowed /\ s.artifact = "absent" IN
    [err |-> IF ok THEN Nil ELSE "CreateService failed",
     sys |-> IF ok
             THEN [s EXCEPT !.artifact = "file",
                            !.contents = <<name, exePath, c, args>>,
                            !.daemon = "Stopped",
                            !.autoStart = IF c.StartType = "StartAutomatic"
                                          THEN "enabled" ELSE "disabled"]
             ELSE s,
     call |-> CallD("scm", "CreateService", <<name, c.StartType>>,
                    IF ok THEN 0 ELSE 1,
                    IF ok THEN <<name, exePath, c, args>> ELSE <<>>)]

\* Service.Start: asks the manager to start the service; when it returns
\* without error the service is in StartPending or already Running.
ServiceStart(s, outcome) ==
    LET ok == outcome # "fail" /\ s.daemon = "Stopped" IN
    [err |-> IF ok THEN Nil ELSE "Start failed",
     sys |-> IF ok THEN [s EXCEPT !.daemon = outcome] ELSE s,
     call |-> Call("scm", "Start", <<>>, IF ok THEN 0 ELSE 1)]

\* Service.Delete: removes the registration; the service's process, when it
\* runs, is not stopped by this.
ServiceDelete(s, allowed) ==
    LET ok == allowed /\ s.artifact # "absent" IN
    [err |-> IF ok THEN Nil ELSE "Delete failed",
     sys |-> IF ok THEN [s EXCEPT !.artifact = "absent", !.contents = <<>>]
             ELSE s,
     call |-> Call("scm", "Delete", <<>>, IF ok THEN 0 ELSE 1)]

\* eventlog.InstallAsEventCreate
EventLogInstall(s, name, allowed) ==
    LET ok == allowed /\ ~s.eventSource IN
    [err |-> IF ok THEN Nil ELSE "registry key already exists",
     sys |-> IF ok THEN [s EXCEPT !.eventSource = TRUE] ELSE s,
     call |-> Call("scm", "eventlog.InstallAsEventCreate", <<name>>,
                   IF ok THEN 0 ELSE 1)]

\* eventlog.Remove
EventLogRemove(s, name, allowed) ==
    LET ok == allowed /\ s.eventSource IN
    [err |-> IF ok THEN Nil ELSE "eventlog.Remove failed",
     sys |-> IF ok THEN [s EXCEPT !.eventSource = FALSE] ELSE s,
     call |-> Call("scm", "eventlog.Remove", <<name>>, IF ok THEN 0 ELSE 1)]

\* stopAndWait: one stop control, then polling until the service is Stopped;
\* it ends with the control refused, the service Stopped, a failed query, or
\* the timeout.
stopAndWait(s, outcome) ==
    LET controlOk == outcome # "controlErr" /\ s.daemon # "Stopped"
        control == Call("scm", "Control", <<"Stop">>, IF controlOk THEN 0 ELSE 1)
    IN IF ~controlOk
       THEN [err |-> "Control(Stop) failed", sys |-> s, calls |-> <<control>>]
       ELSE IF outcome = "stopped"
       THEN [err |-> Nil, sys |-> [s EXCEPT !.daemon = "Stopped"],
             calls |-> <<control, Call("scm", "Query", <<"Stopped">>, 0)>>]
       ELSE IF outcome = "queryErr"
       THEN [err |-> "query failed", sys |-> [s EXCEPT !.daemon = "StopPending"],
             calls |-> <<control, Call("scm", "Query", <<>>, 1)>>]
       ELSE [err |-> "service failed to stop",
             sys |-> [s EXCEPT !.daemon = "StopPending"],
             calls |-> <<control, Call("scm", "Query", <<"StopPending">>, 0)>>]

\* Mutant of NewController (Windows): only StartImmediately registers the
\* service as StartAutomatic.
newWindowsController_OnLoadManual(config) ==
    IF Validate(config) # Nil THEN [kind |-> "none", err |-> Validate(config)]
    ELSE [kind |-> "windows", err |-> Nil,
          config |-> config,
          winStartType |-> IF config.StartType = StartImmediately
                           THEN "StartAutomatic" ELSE "StartManual"]

\* NewController (Windows)
newWindowsController(config) ==
    IF Validate(config) # Nil THEN [kind |-> "none", err |-> Validate(config)]
    ELSE [kind |-> "windows", err |-> Nil,
          config |-> config,
          winStartType |-> IF config.StartType \in {StartImmediately, StartOnLoad}
                           THEN "StartAutomatic" ELSE "StartManual"]

\* Mutant of the state switch of windowsController.Status: the case of
\* svc.ContinuePending is missing.
WindowsStateStatus_NoResuming(state) ==
    CASE state = "StopPending" -> Stopping
      [] state = "Stopped" -> Stopped
      [] state = "StartPending" -> Starting
      [] state = "Running" -> Running
      [] state = "PausePending" -> Pausing
      [] state = "Paused" -> Paused
      [] OTHER -> Unknown

\* The state switch at the end of windowsController.Status.
WindowsStateStatus(state) ==
    CASE state = "StopPending" -> Stopping
      [] state = "Stopped" -> Stopped
      [] state = "StartPending" -> Starting
      [] state = "Running" -> Running
      [] state = "ContinuePending" -> Resuming
      [] state = "PausePending" -> Pausing
      [] state = "Paused" -> Paused
      [] OTHER -> Unknown

\* windowsController.Status
WindowsStatus(o, s, in) ==
    LET m == MgrConnect(in.connect) IN
    IF m.err # Nil THEN Ret(s, NoStatus, m.err, <<m.call>>)
    ELSE LET opened == OpenService(s, o.config.DaemonID, in.open) IN
         IF opened.err # Nil
         THEN IF opened.err = notInstalledErr
              THEN Ret(s, NotInstalled, Nil, <<m.call, opened.call>>)
              ELSE Ret(s, NoStatus, opened.err, <<m.call, opened.call>>)
         ELSE LET q == ServiceQuery(s, in.query) IN
              IF q.err # Nil
              THEN Ret(s, NoStatus, q.err, <<m.call, opened.call, q.call>>)
              ELSE Ret(s, WindowsStateStatus(q.state), Nil,
                       <<m.call, opened.call, q.call>>)

\* Mutant of the password lookup of windowsController.Install: a missing
\* option is an empty password.
WindowsPassword_MissingIsEmpty(o, in) ==
    IF Len(o.config.RunAs) = 0 \/ o.config.PasswordOption = "missing"
    THEN [password |-> "", err |-> Nil, calls |-> <<>>]
    ELSE IF o.config.PasswordOption = "badtype"
    THEN [password |-> "",
          err |-> "the 'password' option must be a GetPassword function",
          calls |-> <<>>]
    ELSE [password |-> IF in.password THEN "secret" ELSE "",
          err |-> IF in.password THEN Nil
                  ELSE "failed to get password when installing daemon",
          calls |-> <<Call("cb", "GetPassword", <<>>, IF in.password THEN 0 ELSE 1)>>]

\* The password lookup of windowsController.Install, made when RunAs is set.
WindowsPassword(o, in) ==
    IF Len(o.config.RunAs) = 0 THEN [password |-> "", err |-> Nil, calls |-> <<>>]
    ELSE IF o.config.PasswordOption = "missing"
    THEN [password |-> "",
          err |-> "the 'password' operating system specific option must be specified",
          calls |-> <<>>]
    ELSE IF o.config.PasswordOption = "badtype"
    THEN [password |-> "",
          err |-> "the 'password' option must be a GetPassword function",
          calls |-> <<>>]
    ELSE [password |-> IF in.password THEN "secret" ELSE "",
          err |-> IF in.password THEN Nil
                  ELSE "failed to get password when installing daemon",
          calls |-> <<Call("cb", "GetPassword", <<>>, IF in.password THEN 0 ELSE 1)>>]

\* Mutant of windowsController.Install: the service is not deleted when the
\* Event Log source cannot be registered.
WindowsInstallCreate_KeepOnEventError(o, s, in, password, calls) ==
    LET c == [DisplayName |-> o.config.DaemonID,
              Description |-> o.config.Description,
              StartType |-> o.winStartType,
              ServiceStartName |-> o.config.RunAs,
              Password |-> password]
        created == CreateService(s, o.config.DaemonID, o.config.ExePath, c,
                                 o.config.Arguments, in.create)
        c1 == calls \o <<created.call>>
    IN IF created.err # Nil THEN Ret(created.sys, NoStatus, created.err, c1)
       ELSE LET immediate == o.config.StartType = StartImmediately
                started == ServiceStart(created.sys, in.start)
                s2 == IF immediate THEN started.sys ELSE created.sys
                c2 == IF immediate THEN c1 \o <<started.call>> ELSE c1
            IN IF immediate /\ started.err # Nil
               THEN LET d == ServiceDelete(s2, in.delete) IN
                    Ret(d.sys, NoStatus, started.err, c2 \o <<d.call>>)
               ELSE LET ev == EventLogInstall(s2, o.config.DaemonID, in.event) IN
                    Ret(ev.sys, NoStatus, ev.err, c2 \o <<ev.call>>)

\* Mutant of windowsController.Install: the service is stopped before it is
\* deleted when the Event Log source cannot be registered.
WindowsInstallCreate_StopOnEventError(o, s, in, password, calls) ==
    LET c == [DisplayName |-> o.config.DaemonID,
              Description |-> o.config.Description,
              StartType |-> o.winStartType,
              ServiceStartName |-> o.config.RunAs,
              Password |-> password]
        created == CreateService(s, o.config.DaemonID, o.config.ExePath, c,
                                 o.config.Arguments, in.create)
        c1 == calls \o <<created.call>>
    IN IF created.err # Nil THEN Ret(created.sys, NoStatus, created.err, c1)
       ELSE LET immediate == o.config.StartType = StartImmediately
                started == ServiceStart(created.sys, in.start)
                s2 == IF immediate THEN started.sys ELSE created.sys
                c2 == IF immediate THEN c1 \o <<started.call>> ELSE c1
            IN IF immediate /\ started.err # Nil
               THEN LET d == ServiceDelete(s2, in.delete) IN
                    Ret(d.sys, NoStatus, started.err, c2 \o <<d.call>>)
               ELSE LET ev == EventLogInstall(s2, o.config.DaemonID, in.event) IN
                    IF ev.err # Nil
                    THEN LET stopped == stopAndWait(ev.sys, "stopped")
                             d == ServiceDelete(stopped.sys, in.delete)
                         IN Ret(d.sys, NoStatus, ev.err,
                                c2 \o <<ev.call>> \o stopped.calls \o <<d.call>>)
                    ELSE Ret(ev.sys, NoStatus, Nil, c2 \o <<ev.call>>)

\* windowsController.Install, from CreateService on.
WindowsInstallCreate(o, s, in, password, calls) ==
    LET c == [DisplayName |-> o.config.DaemonID,
              Description |-> o.config.Description,
              StartType |-> o.winStartType,
              ServiceStartName |-> o.config.RunAs,
              Password |-> password]
        created == CreateService(s, o.config.DaemonID, o.config.ExePath, c,
                                 o.config.Arguments, in.create)
        c1 == calls \o <<created.call>>
    IN IF created.err # Nil THEN Ret(created.sys, NoStatus, created.err, c1)
       ELSE LET immediate == o.config.StartType = StartImmediately
                started == ServiceStart(created.sys, in.start)
                s2 == IF immediate THEN started.sys ELSE created.sys
                c2 == IF immediate THEN c1 \o <<started.call>> ELSE c1
            IN IF immediate /\ started.err # Nil
               THEN LET d == ServiceDelete(s2, in.delete) IN
                    Ret(d.sys, NoStatus, started.err, c2 \o <<d.call>>)
               ELSE LET ev == EventLogInstall(s2, o.config.DaemonID, in.event) IN
                    IF ev.err # Nil
                    THEN LET d == ServiceDelete(ev.sys, in.delete) IN
                         Ret(d.sys, NoStatus, ev.err, c2 \o <<ev.call, d.call>>)
                    ELSE Ret(ev.sys, NoStatus, Nil, c2 \o <<ev.call>>)

\* windowsController.Install
WindowsInstall(o, s, in) ==
    LET m == MgrConnect(in.connect) IN
    IF m.err # Nil THEN Ret(s, NoStatus, m.err, <<m.call>>)
    ELSE LET pw == WindowsPassword(o, in) IN
         IF pw.err # Nil THEN Ret(s, NoStatus, pw.err, <<m.call>> \o pw.calls)
         ELSE WindowsInstallCreate(o, s, in, pw.password, <<m.call>> \o pw.calls)

\* windowsController.Uninstall
WindowsUninstall(o, s, in) ==
    LET m == MgrConnect(in.connect) IN
    IF m.err # Nil THEN Ret(s, NoStatus, m.err, <<m.call>>)
    ELSE LET opened == OpenService(s, o.config.DaemonID, in.open) IN
         IF opened.err # Nil
         THEN Ret(s, NoStatus, opened.err, <<m.call, opened.call>>)
         ELSE LET stopped == stopAndWait(s, in.stop)
                  d == ServiceDelete(stopped.sys, in.delete)
                  c1 == <<m.call, opened.call>> \o stopped.calls \o <<d.call>>
              IN IF d.err # Nil THEN Ret(d.sys, NoStatus, d.err, c1)
                 ELSE LET ev == EventLogRemove(d.sys, o.config.DaemonID, in.event) IN
                      Ret(ev.sys, NoStatus, ev.err, c1 \o <<ev.call>>)

\* windowsController.Start
WindowsStart(o, s, in) ==
    LET m == MgrConnect(in.connect) IN
    IF m.err # Nil THEN Ret(s, NoStatus, m.err, <<m.call>>)
    ELSE LET opened == OpenService(s, o.config.DaemonID, in.open) IN
         IF opened.err # Nil
         THEN Ret(s, NoStatus, opened.err, <<m.call, opened.call>>)
         ELSE LET started == ServiceStart(s, in.start) IN
              Ret(started.sys, NoStatus, started.err,
                  <<m.call, opened.call, started.call>>)

\* windowsController.Stop
WindowsStop(o, s, in) ==
    LET m == MgrConnect(in.connect) IN
    IF m.err # Nil THEN Ret(s, NoStatus, m.err, <<m.call>>)
    ELSE LET opened == OpenService(s, o.config.DaemonID, in.open) IN
         IF opened.err # Nil
         THEN Ret(s, NoStatus, opened.err, <<m.call, opened.call>>)
         ELSE LET stopped == stopAndWait(s, in.stop) IN
              Ret(stopped.sys, NoStatus, stopped.err,
                  <<m.call, opened.call>> \o stopped.calls)

-----------------------------------------------------------------------------
(* The launchd Controller. The work is done by the launchctlutil module;   *)
(* the model gives that module the behaviour its names and the comments at *)
(* its call sites state: Install writes the property list and loads the    *)
(* job (which starts it when RunAtLoad is set), Remove stops and removes   *)
(* it, CurrentStatus asks launchctl for the job by its label.              *)

\* What the host decides during one call of the launchd Controller: whether
\* the log directory can be made, whether the configuration's file path
\* resolves, whether the launchctlutil call succeeds, and whether launchctl
\* reports a status outside NotInstalled / NotRunning / Running.
DarwinStatusInputs == [lib : BOOLEAN, odd : BOOLEAN]
DarwinInstallInputs == [mkdir : BOOLEAN, lib : BOOLEAN]
DarwinUninstallInputs == [filePath : BOOLEAN, lib : BOOLEAN]
DarwinLibInputs == [lib : BOOLEAN]

\* launchctlutil.CurrentStatus
LaunchctlCurrentStatus(s, label, in) ==
    [err |-> IF in.lib THEN Nil ELSE "launchctl list failed",
     Status |-> IF in.odd THEN "Unknown"
                ELSE IF ~s.loaded THEN "NotInstalled"
                ELSE IF s.daemon = "running" THEN "Running"
                ELSE "NotRunning",
     call |-> Call("lib", "launchctlutil.CurrentStatus", <<label>>,
                   IF in.lib THEN 0 ELSE 1)]

\* launchctlutil.Install
LaunchctlInstall(s, config, in) ==
    [err |-> IF in.lib THEN Nil ELSE "launchctl load failed",
     sys |-> IF in.lib
             THEN [s EXCEPT !.artifact = "file", !.contents = <<config>>,
                            !.loaded = TRUE,
                            !.autoStart = IF config.runAtLoad THEN "enabled"
                                          ELSE "disabled",
                            !.daemon = IF config.runAtLoad THEN "running"
                                       ELSE s.daemon]
             ELSE s,
     call |-> CallD("lib", "launchctlutil.Install", <<config.label>>,
                    IF in.lib THEN 0 ELSE 1,
                    IF in.lib THEN <<config>> ELSE <<>>)]

\* launchctlutil.Remove
LaunchctlRemove(s, configFilePath, in) ==
    [err |-> IF in.lib THEN Nil ELSE "launchctl remove failed",
     sys |-> IF in.lib
             THEN [s EXCEPT !.artifact = "absent", !.contents = <<>>,
                            !.loaded = FALSE, !.daemon = "stopped"]
             ELSE s,
     call |-> Call("lib", "launchctlutil.Remove", <<configFilePath>>,
                   IF in.lib THEN 0 ELSE 1)]

\* launchctlutil.Start
LaunchctlStart(s, label, in) ==
    LET ok == in.lib /\ s.loaded IN
    [err |-> IF ok THEN Nil ELSE "launchctl start failed",
     sys |-> IF ok THEN [s EXCEPT !.daemon = "running"] ELSE s,
     call |-> Call("lib", "launchctlutil.Start", <<label>>, IF ok THEN 0 ELSE 1)]

\* launchctlutil.Stop
LaunchctlStop(s, label, in) ==
    LET ok == in.lib /\ s.loaded IN
    [err |-> IF ok THEN Nil ELSE "launchctl stop failed",
     sys |-> IF ok THEN [s EXCEPT !.daemon = "stopped"] ELSE s,
     call |-> Call("lib", "launchctlutil.Stop", <<label>>, IF ok THEN 0 ELSE 1)]

\* runSettings (launchd): the launchd kind, whether the user name goes into
\* the configuration, the log file path, and the error.
DarwinRunSettings(config, h) ==
    LET logPathSuffix == "Library/Logs/" \o config.DaemonID \o "/"
                             \o config.DaemonID \o ".log" IN
    IF Len(config.RunAs) = 0
    THEN [kind |-> "Daemon", setRunAs |-> FALSE,
          logFilePath |-> "/" \o logPathSuffix, err |-> Nil]
    ELSE IF ~h.userOk
    THEN [kind |-> "Daemon", setRunAs |-> FALSE, logFilePath |-> "",
          err |-> "failed to get current user"]
    ELSE IF config.RunOnlyWhenLoggedIn
    THEN IF config.RunAs = h.currentUser
         THEN [kind |-> "UserAgent", setRunAs |-> FALSE,
               logFilePath |-> h.homeDir \o "/" \o logPathSuffix, err |-> Nil]
         ELSE [kind |-> "Daemon", setRunAs |-> FALSE, logFilePath |-> "",
               err |-> "the 'run_only_when_logged_in' option cannot be used when the curret user is not the RunAs user"]
    ELSE IF config.RunAs \notin DOMAIN h.homes
    THEN [kind |-> "Daemon", setRunAs |-> TRUE,
          logFilePath |-> "/Users/" \o config.RunAs \o "/" \o logPathSuffix,
          err |-> Nil]
    ELSE [kind |-> "Daemon", setRunAs |-> TRUE,
          logFilePath |-> h.homes[config.RunAs] \o "/" \o logPathSuffix,
          err |-> Nil]

\* NewController (macOS)
newDarwinController(exePath, config, h) ==
    LET rs == DarwinRunSettings(config, h) IN
    IF Len(config.idParts) - 1 < 2
    THEN [kind |-> "none",
          err |-> "daemon ID must be in reverse DNS format on macOS (e.g., net.website.MyApp)"]
    ELSE IF rs.err # Nil THEN [kind |-> "none", err |-> rs.err]
    ELSE [kind |-> "launchd", err |-> Nil,
          config |-> [kind |-> rs.kind,
                      label |-> config.DaemonID,
                      runAtLoad |-> config.StartType \in {StartOnLoad, StartImmediately},
                      command |-> exePath,
                      arguments |-> config.Arguments,
                      standardErrorPath |-> rs.logFilePath,
                      userName |-> IF rs.setRunAs THEN config.RunAs ELSE ""],
          stderrLogFilePath |-> rs.logFilePath,
          useNativeLogger |-> config.UseNativeLogger]

\* darwinController.Status
DarwinStatus(o, s, in) ==
    LET details == LaunchctlCurrentStatus(s, o.config.label, in) IN
    IF details.err # Nil THEN Ret(s, NoStatus, details.err, <<details.call>>)
    ELSE CASE details.Status = "NotInstalled" ->
                Ret(s, NotInstalled, Nil, <<details.call>>)
           [] details.Status = "NotRunning" ->
                Ret(s, Stopped, Nil, <<details.call>>)
           [] details.Status = "Running" ->
                Ret(s, Running, Nil, <<details.call>>)
           [] OTHER -> Ret(s, Unknown, Nil, <<details.call>>)

\* darwinController.Install
DarwinInstall(o, s, in) ==
    LET mk == Call("fs", "os.MkdirAll", <<o.stderrLogFilePath>>,
                   IF in.mkdir THEN 0 ELSE 1)
        before == IF o.useNativeLogger THEN <<mk>> ELSE <<>>
    IN IF o.useNativeLogger /\ ~in.mkdir
       THEN Ret(s, NoStatus, "mkdir failed", before)
       ELSE LET r == LaunchctlInstall(s, o.config, in) IN
            Ret(r.sys, NoStatus, r.err, before \o <<r.call>>)

\* darwinController.Uninstall
DarwinUninstall(o, s, in) ==
    IF ~in.filePath THEN Ret(s, NoStatus, "GetFilePath failed", <<>>)
    ELSE LET r == LaunchctlRemove(s, o.config.label \o ".plist", in) IN
         Ret(r.sys, NoStatus, r.err, <<r.call>>)

\* darwinController.Start
DarwinStart(o, s, in) ==
    LET r == LaunchctlStart(s, o.config.label, in) IN
    Ret(r.sys, NoStatus, r.err, <<r.call>>)

\* darwinController.Stop
DarwinStop(o, s, in) ==
    LET r == LaunchctlStop(s, o.config.label, in) IN
    Ret(r.sys, NoStatus, r.err, <<r.call>>)

-----------------------------------------------------------------------------
(* Construction: the platform detector and NewController.                  *)

systemctlExeDirPaths == <<"/bin">>

\* Mutant of osutil.IsSystemd: a systemctl binary that is found is enough.
IsSystemd_FoundOnly(h) ==
    LET found == searchForExeInPaths(systemctlExeName, systemctlExeDirPaths, h.files) IN
    IF found.err = Nil
    THEN [systemctlPath |-> found.path, ok |-> TRUE]
    ELSE [systemctlPath |-> "", ok |-> FALSE]

\* osutil.IsSystemd: a systemctl binary is found and, run without arguments,
\* exits with 0.
IsSystemd(h) ==
    LET found == searchForExeInPaths(systemctlExeName, systemctlExeDirPaths, h.files) IN
    IF found.err = Nil /\ h.systemctlExit = 0
    THEN [systemctlPath |-> found.path, ok |-> TRUE]
    ELSE [systemctlPath |-> "", ok |-> FALSE]

\* Mutant of osutil.IsSystemv: the output of the service binary is not
\* looked at.
IsSystemv_AnyOutput(h) ==
    LET found == searchForExeInPaths(serviceExeName, serviceExeDirPaths, h.files) IN
    IF found.err # Nil
    THEN [servicePath |-> "", isRedHat |-> FALSE, whyNotSysV |-> found.err,
          ok |-> FALSE]
    ELSE [servicePath |-> found.path, isRedHat |-> h.redhatRelease = "file",
          whyNotSysV |-> "", ok |-> TRUE]

\* osutil.IsSystemv: a service binary is found, its output starts with the
\* usage banner, and /etc/redhat-release tells Red Hat from the others.
IsSystemv(h) ==
    LET found == searchForExeInPaths(serviceExeName, serviceExeDirPaths, h.files) IN
    IF found.err # Nil
    THEN [servicePath |-> "", isRedHat |-> FALSE, whyNotSysV |-> found.err,
          ok |-> FALSE]
    ELSE IF ~h.serviceUsage
    THEN [servicePath |-> "", isRedHat |-> FALSE,
          whyNotSysV |-> "'" \o found.path \o "' did not produce expected output",
          ok |-> FALSE]
    ELSE IF h.redhatRelease # "file"
    THEN [servicePath |-> found.path, isRedHat |-> FALSE, whyNotSysV |-> "",
          ok |-> TRUE]
    ELSE [servicePath |-> found.path, isRedHat |-> TRUE, whyNotSysV |-> "",
          ok |-> TRUE]

\* NewController (Linux)
newLinuxController(config, h) ==
    IF ~h.exeOk THEN [kind |-> "none", err |-> "os.Executable failed"]
    ELSE IF IsSystemd(h).ok
    THEN newSystemdController(h.exePath, config, IsSystemd(h).systemctlPath, h)
    ELSE IF IsSystemv(h).ok
    THEN newSystemvController(config, IsSystemv(h).servicePath,
                              IsSystemv(h).isRedHat, h)
    ELSE [kind |-> "none", err |-> IsSystemv(h).whyNotSysV]

\* NewController, as built for the host's operating system.
NewController(config, h) ==
    CASE h.os = "linux" -> newLinuxController(config, h)
      [] h.os = "darwin" ->
            IF ~h.exeOk THEN [kind |-> "none", err |-> "os.Executable failed"]
            ELSE newDarwinController(h.exePath, config, h)
      [] OTHER -> newWindowsController(config)

-----------------------------------------------------------------------------
(* The hosts and configurations of the model.                              *)

RECURSIVE ArgLists(_)
\* The Arguments lists of up to n arguments.
ArgLists(n) ==
    IF n = 0 THEN {<<>>}
    ELSE ArgLists(n - 1) \cup {Append(a, "-v") : a \in {b \in ArgLists(n - 1) : Len(b) = n - 1}}

\* A host; a Linux host is told apart by the tools it holds.
Host(os, files, systemctlExit, redhatRelease) ==
    [os |-> os, files |-> files, systemctlExit |-> systemctlExit,
     serviceUsage |-> TRUE, redhatRelease |-> redhatRelease,
     exeOk |-> TRUE, exePath |-> "/opt/app",
     userOk |-> TRUE, currentUser |-> "bob", homeDir |-> "/home/bob",
     homes |-> [u \in {"bob"} |-> "/home/bob"]]

Hosts ==
    { Host("linux", {"/bin/systemctl", "/usr/sbin/service"}, 0, "absent"),
      Host("linux", {"/sbin/service", "/sbin/chkconfig"}, 1, "file"),
      Host("linux", {"/bin/systemctl", "/usr/sbin/service", "/usr/sbin/update-rc.d"},
           1, "dir"),
      Host("darwin", {}, 1, "absent"),
      Host("windows", {}, 1, "absent") }

\* The StartType of a ControllerConfig; "" is the unset field.
ConfigStartTypes == StartTypes \cup {""}

Config(idParts, arguments, runAs, startType, native, loggedIn, password) ==
    [DaemonID |-> Join(idParts, "."), idParts |-> idParts,
     Description |-> "a daemon", ExePath |-> "/opt/app",
     Arguments |-> arguments, RunAs |-> runAs, StartType |-> startType,
     UseNativeLogger |-> native, RunOnlyWhenLoggedIn |-> loggedIn,
     PasswordOption |-> password]

\* The configurations tried on host h: every StartType with the plain
\* configuration, and one configuration for each other field a Controller of
\* that host reads (arguments, RunAs, the per-user option, the native logger,
\* the Windows password option).
Configs(h) ==
    LET id == IF h.os = "darwin" THEN <<"net", "site", "test">> ELSE <<"test">>
        plain(st) == Config(id, <<>>, "", st, FALSE, FALSE, "missing")
    IN { plain(st) : st \in ConfigStartTypes }
       \cup { Config(id, a, "", StartImmediately, FALSE, FALSE, "missing") :
                a \in ArgLists(MaxArgs) }
       \cup { Config(id, <<>>, "bob", st, FALSE, FALSE, "provider") :
                st \in {StartImmediately, ManualStart} }
       \cup (IF h.os = "darwin" \/ IsSystemd(h).ok
             THEN { Config(id, <<>>, "bob", StartOnLoad, FALSE, TRUE, "missing") }
             ELSE {})
       \cup (IF h.os = "linux" /\ IsSystemd(h).ok
             THEN { Config(id, <<>>, "bob", StartImmediately, FALSE, TRUE, "missing") }
             ELSE {})
       \cup (IF h.os \in {"linux", "darwin"} /\ ~IsSystemd(h).ok
             THEN { Config(id, <<>>, "", ManualStart, TRUE, FALSE, "missing") }
             ELSE {})
       \cup (IF h.os = "windows"
             THEN { Config(id, <<>>, "bob", StartOnLoad, FALSE, FALSE, p) :
                      p \in {"missing", "badtype"} }
             ELSE {})

\* The host's daemon-manager state before the Controller is used: nothing
\* installed, an artifact left by an earlier installation, or (on Linux) a
\* directory where the artifact would be.
InitialSys(kind) ==
    LET fresh == [artifact |-> "absent", contents |-> <<>>,
                  daemon |-> IdleState(kind), autoStart |-> "unset",
                  loaded |-> FALSE, eventSource |-> FALSE]
    IN {fresh,
        [fresh EXCEPT !.artifact = "file", !.contents = <<"stale">>,
                      !.loaded = (kind = "launchd"),
                      !.eventSource = (kind = "windows")]}
       \cup (IF kind \in {"systemd", "systemv"}
             THEN {[fresh EXCEPT !.artifact = "dir"]} ELSE {})

-----------------------------------------------------------------------------
(* The state machine.                                                      *)

\* What is kept of the call before the last one, when that was an Install or
\* an Uninstall: which of the two, whether it failed and what it wrote.
RECURSIVE Written(_)
Written(calls) ==
    IF Len(calls) = 0 THEN <<>>
    ELSE (IF Head(calls).exitCode = 0
             /\ Head(calls).tool \in {"ioutil.WriteFile", "CreateService",
                                      "launchctlutil.Install"}
          THEN <<Head(calls).data>> ELSE <<>>) \o Written(Tail(calls))

Summary(l) ==
    IF l.op \in {"Install", "Uninstall"}
    THEN [op |-> l.op, failed |-> l.err # Nil, wrote |-> Written(l.calls)]
    ELSE [op |-> "other", failed |-> FALSE, wrote |-> <<>>]

NoCall(s) ==
    [op |-> "none", status |-> NoStatus, err |-> Nil, calls |-> <<>>,
     daemonBefore |-> s.daemon]

\* Before any Execute call (failure keeps the dynamic type of the error of
\* the last known command whose execution failed), and outside a Daemonizer
\* run.
NoExecute ==
    [command |-> "none", output |-> "", err |-> [type |-> "nil", text |-> ""],
     invoked |-> <<>>, failure |-> "nil"]
NoRun == [pc |-> "none", kind |-> "none"]
NoWait == [pc |-> "none"]
NoHandoff == [chain |-> <<>>, procs |-> <<>>, pidFile |-> 0]

Init ==
    /\ host \in Hosts
    /\ cfg \in Configs(host)
    /\ ctl = NewController(cfg, host)
    /\ ctl.err = Nil
    /\ sys \in InitialSys(ctl.kind)
    /\ last = NoCall(sys)
    /\ prev = Summary(last)
    /\ ex = NoExecute
    /\ dz = NoRun
    /\ sw = NoWait
    /\ hf = NoHandoff

\* One Controller call op that ended as r.
Apply(op, r) ==
    /\ sys' = r.sys
    /\ last' = [op |-> op, status |-> r.status, err |-> r.err, calls |-> r.calls,
                daemonBefore |-> sys.daemon]
    /\ prev' = Summary(last)
    /\ UNCHANGED <<cfg, host, ctl, ex, dz, sw, hf>>

DoSystemdStatus ==
    ctl.kind = "systemd" /\ Apply("Status", SystemdStatus(ctl, sys))

DoSystemdInstall ==
    ctl.kind = "systemd" /\ \E in \in SystemdInstallInputs : Apply("Install", SystemdInstall(ctl, sys, in))

DoSystemdUninstall ==
    ctl.kind = "systemd" /\ \E in \in SystemdUninstallInputs : Apply("Uninstall", SystemdUninstall(ctl, sys, in))

DoSystemdStart ==
    ctl.kind = "systemd" /\ \E in \in StartInputs : Apply("Start", SystemdStart(ctl, sys, in))

DoSystemdStop ==
    ctl.kind = "systemd" /\ \E in \in StopInputs : Apply("Stop", SystemdStop(ctl, sys, in))

DoSystemvStatus ==
    ctl.kind = "systemv" /\ Apply("Status", SystemvStatus(ctl, sys))

DoSystemvInstall ==
    ctl.kind = "systemv" /\ \E in \in SystemvInstallInputs : Apply("Install", SystemvInstall(ctl, sys, in))

DoSystemvUninstall ==
    ctl.kind = "systemv" /\ \E in \in SystemvUninstallInputs : Apply("Uninstall", SystemvUninstall(ctl, sys, in))

DoSystemvStart ==
    ctl.kind = "systemv" /\ \E in \in StartInputs : Apply("Start", SystemvStart(ctl, sys, in))

DoSystemvStop ==
    ctl.kind = "systemv" /\ \E in \in StopInputs : Apply("Stop", SystemvStop(ctl, sys, in))

DoWindowsStatus ==
    ctl.kind = "windows" /\ \E in \in WindowsStatusInputs : Apply("Status", WindowsStatus(ctl, sys, in))

DoWindowsInstall ==
    ctl.kind = "windows" /\ \E in \in WindowsInstallInputs : Apply("Install", WindowsInstall(ctl, sys, in))

DoWindowsUninstall ==
    ctl.kind = "windows" /\ \E in \in WindowsUninstallInputs : Apply("Uninstall", WindowsUninstall(ctl, sys, in))

DoWindowsStart ==
    ctl.kind = "windows" /\ \E in \in WindowsStartInputs : Apply("Start", WindowsStart(ctl, sys, in))

DoWindowsStop ==
    ctl.kind = "windows" /\ \E in \in WindowsStopInputs : Apply("Stop", WindowsStop(ctl, sys, in))

DoDarwinStatus ==
    ctl.kind = "launchd" /\ \E in \in DarwinStatusInputs : Apply("Status", DarwinStatus(ctl, sys, in))

DoDarwinInstall ==
    ctl.kind = "launchd" /\ \E in \in DarwinInstallInputs : Apply("Install", DarwinInstall(ctl, sys, in))

DoDarwinUninstall ==
    ctl.kind = "launchd" /\ \E in \in DarwinUninstallInputs : Apply("Uninstall", DarwinUninstall(ctl, sys, in))

DoDarwinStart ==
    ctl.kind = "launchd" /\ \E in \in DarwinLibInputs : Apply("Start", DarwinStart(ctl, sys, in))

DoDarwinStop ==
    ctl.kind = "launchd" /\ \E in \in DarwinLibInputs : Apply("Stop", DarwinStop(ctl, sys, in))

\* The states a daemon in native state d can move to on its own: a running
\* daemon exits or fails, a Windows service completes a pending transition or
\* is paused and continued by its manager.
DaemonMoves(kind, d) ==
    CASE kind \in {"systemd", "systemv"} /\ d = "running" -> {"stopped", "dead", "other"}
      [] kind = "launchd" /\ d = "running" -> {"stopped"}
      [] kind = "windows" /\ d = "StartPending" -> {"Running", "Stopped"}
      [] kind = "windows" /\ d = "StopPending" -> {"Stopped"}
      [] kind = "windows" /\ d = "Running" -> {"PausePending", "Stopped", "Other"}
      [] kind = "windows" /\ d = "PausePending" -> {"Paused"}
      [] kind = "windows" /\ d = "Paused" -> {"ContinuePending"}
      [] kind = "windows" /\ d = "ContinuePending" -> {"Running"}
      [] OTHER -> {}

\* The daemon changes its native state without the Controller.
DaemonChange ==
    /\ \E d \in DaemonMoves(ctl.kind, sys.daemon) : sys' = [sys EXCEPT !.daemon = d]
    /\ last' = [NoCall(sys) EXCEPT !.op = "env"]
    /\ prev' = Summary(last)
    /\ UNCHANGED <<cfg, host, ctl, ex, dz, sw, hf>>

Next ==
    \/ DoSystemdStatus \/ DoSystemdInstall \/ DoSystemdUninstall
    \/ DoSystemdStart \/ DoSystemdStop
    \/ DoSystemvStatus \/ DoSystemvInstall \/ DoSystemvUninstall
    \/ DoSystemvStart \/ DoSystemvStop
    \/ DoWindowsStatus \/ DoWindowsInstall \/ DoWindowsUninstall
    \/ DoWindowsStart \/ DoWindowsStop
    \/ DoDarwinStatus \/ DoDarwinInstall \/ DoDarwinUninstall
    \/ DoDarwinStart \/ DoDarwinStop
    \/ DaemonChange

Spec == Init /\ [][Next]_vars

-----------------------------------------------------------------------------
(* Properties.                                                             *)

LinuxKinds == {"systemd", "systemv"}

\* A query of the native daemon manager about the daemon's state: a run of
\* systemctl / service, a launchctlutil call, or a Query of a Windows service.
IsNativeQuery(c) ==
    c.kind \in {"cli", "lib"} \/ (c.kind = "scm" /\ c.tool = "Query")

\* The lookup of the identity artifact: os.Stat on the unit file / init
\* script, or OpenService for the Windows registration.
IsArtifactCheck(c) == c.tool \in {"os.Stat", "OpenService"}

\* The positions of the native queries and of the artifact lookups of a
\* trace.
NativeQueryAt(calls) == {i \in 1..Len(calls) : IsNativeQuery(calls[i])}
ArtifactCheckAt(calls) == {i \in 1..Len(calls) : IsArtifactCheck(calls[i])}

\* C1 (as claimed): for every Controller, whenever the identity artifact is
\* absent, Status() returns NotInstalled with a nil error.
C1_StatusAbsentIsNotInstalled ==
    (last.op = "Status" /\ sys.artifact = "absent")
        => (last.status = NotInstalled /\ last.err = Nil)

\* C1 (amended): the systemd and System V Controllers return NotInstalled with
\* a nil error whenever the unit file / init script is absent or a directory,
\* whatever state the daemon is in; the Windows Controller does so whenever
\* the connection to the service manager succeeds and the lookup of the
\* service fails with the "does not exist" error, and otherwise returns the
\* connection's or the lookup's error; the launchd Controller returns
\* launchctlutil's error when its status call fails.
C1_StatusAbsentAmended ==
    (last.op = "Status" /\ sys.artifact # "file") =>
        /\ ctl.kind \in LinuxKinds =>
              last.status = NotInstalled /\ last.err = Nil
        /\ ctl.kind = "windows" =>
              IF \E i \in 1..Len(last.calls) :
                    last.calls[i].tool = "OpenService" /\ last.calls[i].exitCode = 1060
              THEN last.status = NotInstalled /\ last.err = Nil
              ELSE last.status = NoStatus /\ last.err # Nil
        /\ ctl.kind = "launchd" =>
              (last.calls[1].exitCode # 0 => last.status = NoStatus /\ last.err # Nil)

\* C1 witness: the unit file is gone while the daemon still runs (systemctl
\* would answer "running"), and Status() answers NotInstalled.
C1_Witness ==
    /\ last.op = "Status" /\ ctl.kind = "systemd"
    /\ sys.artifact = "absent" /\ sys.daemon = "running"
    /\ last.status = NotInstalled /\ last.err = Nil

\* C2 (as claimed): for every Controller, Status() queries the native daemon
\* manager only when the identity artifact is present, and returns
\* NotInstalled without any such query when it is absent.
C2_NoNativeQueryWhenAbsent ==
    (last.op = "Status" /\ sys.artifact = "absent")
        => NativeQueryAt(last.calls) = {}

\* C2 (amended): the systemd, System V and Windows Controllers look the
\* artifact up before any native query, query the native manager only when
\* the artifact is present, and make no native query when it is absent; the
\* launchd Controller makes no artifact check of its own: its Status() is
\* one launchctlutil.CurrentStatus call, made whether or not the property
\* list exists.
C2_ArtifactCheckFirstAmended ==
    last.op = "Status" =>
        /\ ctl.kind # "launchd" =>
              /\ NativeQueryAt(last.calls) # {} => sys.artifact = "file"
              /\ \A i \in NativeQueryAt(last.calls) :
                    \E j \in ArtifactCheckAt(last.calls) :
                        j < i /\ last.calls[j].exitCode = 0
              /\ (sys.artifact # "file" /\ last.err = Nil) => last.status = NotInstalled
        /\ ctl.kind \in LinuxKinds =>
              /\ last.calls[1].tool = "os.Stat"
              /\ sys.artifact = "file" => Len(last.calls) = 2 /\ IsNativeQuery(last.calls[2])
        /\ ctl.kind = "launchd" =>
              /\ Len(last.calls) = 1
              /\ last.calls[1].tool = "launchctlutil.CurrentStatus"

\* C2 witness: a System V Status() with no init script, which made the file
\* lookup and nothing else.
C2_Witness ==
    /\ last.op = "Status" /\ ctl.kind = "systemv" /\ sys.artifact = "absent"
    /\ Len(last.calls) = 1 /\ last.calls[1].tool = "os.Stat"
    /\ last.status = NotInstalled

\* C3: for every StartType and every Controller, a Status() made right after
\* an Install() that returned without error (no other call and no change of
\* the daemon in between) never returns NotInstalled.
C3_StatusAfterInstall ==
    (prev.op = "Install" /\ ~prev.failed /\ last.op = "Status")
        => last.status # NotInstalled

\* C3 witness: a Status() right after a successful Install() of a daemon
\* that is only to start by hand, answering Stopped.
C3_Witness ==
    /\ prev.op = "Install" /\ ~prev.failed /\ last.op = "Status"
    /\ cfg.StartType = ManualStart
    /\ last.status = Stopped

C4_WitnessUninstalled ==
    /\ prev.op = "Uninstall" /\ ~prev.failed /\ ctl.kind = "windows"
    /\ last.op = "Status" /\ last.status = NotInstalled
    /\ sys.artifact = "absent"

\* What a Controller stores as its identity artifact when an Install()
\* succeeds in storing it: the unit file, the init script, the launchd
\* configuration, or the service registration (whose password comes from the
\* configuration's provider at each Install).
Rendered(o, data) ==
    CASE o.kind = "systemd" -> data = o.unitContents
      [] o.kind = "systemv" -> data = o.initContents
      [] o.kind = "launchd" -> data = <<o.config>>
      [] o.kind = "windows" ->
            /\ data[1] = o.config.DaemonID
            /\ data[2] = o.config.ExePath
            /\ data[3].StartType = o.winStartType
            /\ data[3].Description = o.config.Description
            /\ data[4] = o.config.Arguments

\* C5: the Controller is a function of its configuration and host alone and
\* no operation changes it; every Install() stores exactly the contents
\* rendered at construction, so two Install() calls in a row that both store
\* the artifact store the same bytes, and what is on the host afterwards is
\* those bytes.
C5_InstallIdempotent ==
    /\ ctl = NewController(cfg, host)
    /\ last.op = "Install" =>
          /\ Len(Written(last.calls)) <= 1
          /\ \A i \in 1..Len(Written(last.calls)) :
                Rendered(ctl, Written(last.calls)[i])
          /\ (ctl.kind \in LinuxKinds /\ Len(Written(last.calls)) = 1) =>
                sys.contents = Written(last.calls)[1]
          /\ (prev.op = "Install" /\ prev.wrote # <<>>
                  /\ Written(last.calls) # <<>>)
                => prev.wrote = Written(last.calls)

\* C5 witness: two systemd Install() calls in a row that both wrote the unit
\* file, which holds the rendered unit afterwards.
C5_Witness ==
    /\ ctl.kind = "systemd" /\ last.op = "Install" /\ prev.op = "Install"
    /\ prev.wrote # <<>> /\ prev.wrote = Written(last.calls)
    /\ sys.contents = ctl.unitContents
    /\ Len(ctl.unitContents) > 0

\* The verb of a native command: systemctl takes it before the daemon ID
\* (or alone, for daemon-reload), service / chkconfig / update-rc.d take it
\* after the daemon ID.
CliVerb(c) ==
    IF c.kind # "cli" THEN ""
    ELSE IF ctl.kind = "systemd"
    THEN IF c.args[Len(c.args)] = daemonReloadCommand THEN daemonReloadCommand
         ELSE c.args[Len(c.args) - 1]
    ELSE c.args[Len(c.args)]

\* The positions of the calls of a trace made to tool / with verb.
ToolAt(calls, tool) == {i \in 1..Len(calls) : calls[i].tool = tool}
VerbAt(calls, verb) == {i \in 1..Len(calls) : CliVerb(calls[i]) = verb}

\* Whether every call of a trace from position i on succeeded.
AllOkFrom(calls, i) == \A j \in i..Len(calls) : calls[j].exitCode = 0

\* Whether the stop attempt of a Windows Uninstall() failed: the stop control
\* was refused, or the wait ended without the service reported Stopped.
WindowsStopFailed(calls) ==
    \E i \in ToolAt(calls, "Control") :
        \/ calls[i].exitCode # 0
        \/ ~\E j \in ToolAt(calls, "Query") :
               j > i /\ calls[j].exitCode = 0 /\ calls[j].args = <<"Stopped">>

\* C6: Uninstall() of the systemd, System V and Windows Controllers attempts
\* the stop first and removes the artifact next, whatever the stop did; when
\* the stop fails, Uninstall() fails only if the removal or a later step
\* fails, and the artifact is gone whenever the removal succeeded.
C6_UninstallIgnoresStop ==
    last.op = "Uninstall" =>
        /\ ctl.kind \in LinuxKinds =>
              /\ Len(last.calls) >= 2
              /\ CliVerb(last.calls[1]) = "stop"
              /\ last.calls[2].tool = "os.Remove"
              /\ last.calls[1].exitCode # 0 =>
                    /\ last.err = Nil <=> AllOkFrom(last.calls, 2)
                    /\ last.calls[2].exitCode = 0 => sys.artifact = "absent"
        /\ ctl.kind = "windows" =>
              \A i \in ToolAt(last.calls, "OpenService") :
                  last.calls[i].exitCode = 0 =>
                      /\ last.calls[i + 1].tool = "Control"
                      /\ \E d \in ToolAt(last.calls, "Delete") :
                            /\ d > i + 1
                            /\ \A j \in (i + 2)..(d - 1) : last.calls[j].tool = "Query"
                            /\ WindowsStopFailed(last.calls) =>
                                  /\ last.err = Nil <=> AllOkFrom(last.calls, d)
                                  /\ last.calls[d].exitCode = 0 =>
                                        sys.artifact = "absent"

\* C6 witness: a systemd Uninstall() whose stop command failed, which
\* removed the unit file and returned no error.
C6_Witness ==
    /\ last.op = "Uninstall" /\ ctl.kind = "systemd"
    /\ last.calls[1].exitCode # 0
    /\ last.err = Nil /\ sys.artifact = "absent"
    /\ prev.op = "Install"

\* The verbs that enable and that disable auto-start.
EnableVerbs == {"enable", "on", "defaults"}
DisableVerbs == {"off", "disable"}

EnableAt(calls) == {i \in 1..Len(calls) : CliVerb(calls[i]) \in EnableVerbs}
DisableAt(calls) == {i \in 1..Len(calls) : CliVerb(calls[i]) \in DisableVerbs}

\* C7: an Install() with StartImmediately on systemd or System V writes the
\* artifact first, issues the start command only after a successful write,
\* and issues the enable command only after a start command that succeeded;
\* each is issued at most once, the enable command always follows a
\* successful start, and an Install() that returns no error made all three.
\* (The Windows and launchd Controllers have no enable command of their
\* own: the service is registered StartAutomatic, the job RunAtLoad.)
C7_StartBeforeEnable ==
    (last.op = "Install" /\ ctl.kind \in LinuxKinds
        /\ ctl.startType = StartImmediately) =>
        /\ last.calls[1].tool = "ioutil.WriteFile"
        /\ ToolAt(last.calls, "ioutil.WriteFile") = {1}
        /\ Cardinality(VerbAt(last.calls, "start")) <= 1
        /\ Cardinality(EnableAt(last.calls)) <= 1
        /\ \A i \in VerbAt(last.calls, "start") :
              i > 1 /\ AllOkFrom(SubSeq(last.calls, 1, i - 1), 1)
        /\ \A e \in EnableAt(last.calls) :
              \E i \in VerbAt(last.calls, "start") :
                  i + 1 = e /\ last.calls[i].exitCode = 0
        /\ \A i \in VerbAt(last.calls, "start") :
              last.calls[i].exitCode = 0 => i + 1 \in EnableAt(last.calls)
        /\ last.err = Nil =>
              /\ VerbAt(last.calls, "start") # {}
              /\ EnableAt(last.calls) # {}
              /\ AllOkFrom(last.calls, 1)

\* C7 witness: a systemd Install() with StartImmediately that wrote, started
\* and enabled, in that order, and returned no error.
C7_Witness ==
    /\ last.op = "Install" /\ ctl.kind = "systemd"
    /\ ctl.startType = StartImmediately /\ last.err = Nil
    /\ Len(last.calls) = 4
    /\ CliVerb(last.calls[3]) = "start" /\ CliVerb(last.calls[4]) = "enable"

\* C8: a System V Install() with ManualStart issues neither the start
\* command nor an enable command; once the init script is written it issues
\* the disable command exactly once, as its last call: chkconfig <id> off on
\* a Red Hat-family host, update-rc.d <id> disable otherwise. (An Install()
\* that cannot write the script stops there and issues no command.)
C8_ManualStartDisables ==
    (last.op = "Install" /\ ctl.kind = "systemv"
        /\ ctl.startType = ManualStart) =>
        /\ VerbAt(last.calls, "start") = {}
        /\ EnableAt(last.calls) = {}
        /\ last.calls[1].tool = "ioutil.WriteFile"
        /\ IF last.calls[1].exitCode = 0
           THEN /\ DisableAt(last.calls) = {2} /\ Len(last.calls) = 2
                /\ last.calls[2].tool =
                      (IF ctl.isRedHat THEN ChkconfigPath(host).path
                       ELSE UpdatercdPath(host).path)
                /\ last.calls[2].args =
                      (IF ctl.isRedHat THEN <<ctl.daemonID, "off">>
                       ELSE <<ctl.daemonID, "disable">>)
           ELSE Len(last.calls) = 1

\* C8 witness: a System V Install() with ManualStart on a host that is not
\* of the Red Hat family, which ran update-rc.d <id> disable.
C8_Witness ==
    /\ last.op = "Install" /\ ctl.kind = "systemv"
    /\ ctl.startType = ManualStart /\ ~ctl.isRedHat
    /\ Len(last.calls) = 2 /\ CliVerb(last.calls[2]) = "disable"
    /\ last.err = Nil /\ sys.autoStart = "disabled"

\* C9: an Install() with StartOnLoad on systemd, System V or Windows issues
\* no start command and leaves the daemon's run state as it was (a service
\* registered anew on Windows is Stopped); on systemd and System V it issues
\* the enable command exactly once, right after a successful write, and on
\* Windows every service it creates is created StartAutomatic; an Install()
\* that returns no error leaves auto-start enabled.
C9_StartOnLoadEnablesOnly ==
    (last.op = "Install" /\ cfg.StartType = StartOnLoad
        /\ ctl.kind \in LinuxKinds \cup {"windows"}) =>
        /\ VerbAt(last.calls, "start") = {}
        /\ ToolAt(last.calls, "Start") = {}
        /\ sys.daemon = last.daemonBefore \/ sys.daemon = "Stopped"
        /\ sys.daemon \notin {"running", "Running", "StartPending"}
              \/ sys.daemon = last.daemonBefore
        /\ ctl.kind \in LinuxKinds =>
              /\ last.calls[1].exitCode = 0 =>
                    (EnableAt(last.calls) = {2} /\ Len(last.calls) = 2)
              /\ last.calls[1].exitCode # 0 => EnableAt(last.calls) = {}
              /\ ctl.kind = "systemd" =>
                    \A e \in EnableAt(last.calls) : CliVerb(last.calls[e]) = "enable"
              /\ ctl.kind = "systemv" =>
                    \A e \in EnableAt(last.calls) :
                        /\ CliVerb(last.calls[e]) =
                              (IF ctl.isRedHat THEN "on" ELSE "defaults")
                        /\ last.calls[e].tool =
                              (IF ctl.isRedHat THEN ChkconfigPath(host).path
                               ELSE UpdatercdPath(host).path)
        /\ ctl.kind = "windows" =>
              \A i \in ToolAt(last.calls, "CreateService") :
                  last.calls[i].args[2] = "StartAutomatic"
        /\ last.err = Nil => sys.autoStart = "enabled"

\* C9 witness: a Windows Install() with StartOnLoad that registered the
\* service StartAutomatic and left it Stopped.
C9_Witness ==
    /\ last.op = "Install" /\ cfg.StartType = StartOnLoad
    /\ ctl.kind = "windows" /\ last.err = Nil
    /\ sys.artifact = "file" /\ sys.autoStart = "enabled"
    /\ sys.daemon = "Stopped"

\* The error RunDaemonCli returns for a command that failed.
CliError(c) == RunDaemonCli(sys, c.tool, c.args, "", c.exitCode).err

\* C10: when an Install() on systemd or System V has written the artifact
\* and a later command (daemon-reload, start, enable or disable) fails,
\* Install() returns that command's error, makes no further call and removes
\* nothing: the artifact stays, with the rendered contents; a Status() right
\* after such an Install() does not return NotInstalled.
C10_NoRollback ==
    /\ (last.op = "Install" /\ ctl.kind \in LinuxKinds
            /\ last.calls[1].exitCode = 0) =>
          /\ ToolAt(last.calls, "os.Remove") = {}
          /\ sys.artifact = "file"
          /\ Rendered(ctl, sys.contents)
          /\ \A i \in 2..Len(last.calls) :
                last.calls[i].exitCode # 0 =>
                    /\ i = Len(last.calls)
                    /\ last.err = CliError(last.calls[i])
          /\ last.err # Nil => last.calls[Len(last.calls)].exitCode # 0
    /\ (prev.op = "Install" /\ prev.failed /\ prev.wrote # <<>>
            /\ ctl.kind \in LinuxKinds /\ last.op = "Status") =>
          /\ last.status # NotInstalled
          /\ sys.artifact = "file"

\* C10 witness: a systemd Status() right after an Install() that wrote the
\* unit file and then failed, answering Stopped.
C10_Witness ==
    /\ prev.op = "Install" /\ prev.failed /\ prev.wrote # <<>>
    /\ ctl.kind = "systemd" /\ last.op = "Status"
    /\ last.status = Stopped /\ sys.artifact = "file"

-----------------------------------------------------------------------------
(* control.Execute: a command token turned into one Controller call.       *)

GetStatus == "status"
Start == "start"
Stop == "stop"
Install == "install"
Uninstall == "uninstall"

\* The command tokens tried: the five commands, and tokens outside them.
CommandTokens == {GetStatus, Start, Stop, Install, Uninstall, "restart", ""}

\* The methods of the Controller interface.
Methods == {"Status", "Start", "Stop", "Install", "Uninstall"}

\* The inputs of method m of a Controller of the given kind: what the host
\* decides during the call.
MethodInputs(kind, m) ==
    CASE kind = "systemd" ->
           CASE m = "Status" -> {<<>>}
             [] m = "Start" -> StartInputs
             [] m = "Stop" -> StopInputs
             [] m = "Install" -> SystemdInstallInputs
             [] OTHER -> SystemdUninstallInputs
      [] kind = "systemv" ->
           CASE m = "Status" -> {<<>>}
             [] m = "Start" -> StartInputs
             [] m = "Stop" -> StopInputs
             [] m = "Install" -> SystemvInstallInputs
             [] OTHER -> SystemvUninstallInputs
      [] kind = "windows" ->
           CASE m = "Status" -> WindowsStatusInputs
             [] m = "Start" -> WindowsStartInputs
             [] m = "Stop" -> WindowsStopInputs
             [] m = "Install" -> WindowsInstallInputs
             [] OTHER -> WindowsUninstallInputs
      [] OTHER ->
           CASE m = "Status" -> DarwinStatusInputs
             [] m = "Install" -> DarwinInstallInputs
             [] m = "Uninstall" -> DarwinUninstallInputs
             [] OTHER -> DarwinLibInputs

\* What method m of Controller o returns on host state s with inputs in.
ControllerCall(o, s, m, in) ==
    CASE o.kind = "systemd" ->
           CASE m = "Status" -> SystemdStatus(o, s)
             [] m = "Start" -> SystemdStart(o, s, in)
             [] m = "Stop" -> SystemdStop(o, s, in)
             [] m = "Install" -> SystemdInstall(o, s, in)
             [] OTHER -> SystemdUninstall(o, s, in)
      [] o.kind = "systemv" ->
           CASE m = "Status" -> SystemvStatus(o, s)
             [] m = "Start" -> SystemvStart(o, s, in)
             [] m = "Stop" -> SystemvStop(o, s, in)
             [] m = "Install" -> SystemvInstall(o, s, in)
             [] OTHER -> SystemvUninstall(o, s, in)
      [] o.kind = "windows" ->
           CASE m = "Status" -> WindowsStatus(o, s, in)
             [] m = "Start" -> WindowsStart(o, s, in)
             [] m = "Stop" -> WindowsStop(o, s, in)
             [] m = "Install" -> WindowsInstall(o, s, in)
             [] OTHER -> WindowsUninstall(o, s, in)
      [] OTHER ->
           CASE m = "Status" -> DarwinStatus(o, s, in)
             [] m = "Start" -> DarwinStart(o, s, in)
             [] m = "Stop" -> DarwinStop(o, s, in)
             [] m = "Install" -> DarwinInstall(o, s, in)
             [] OTHER -> DarwinUninstall(o, s, in)

\* An error value: its dynamic type and its text. fmt.Errorf without %w
\* makes an *errors.errorString.
Errorf(text) == [type |-> "*errors.errorString", text |-> text]
NilError == [type |-> "nil", text |-> ""]

\* What Execute returns, with the methods it invoked: controller maps each
\* method name to what that method returns when it is called.
Executed(output, err, invoked) ==
    [output |-> output, err |-> err, invoked |-> invoked]

\* One case of Execute's switch: call method m, wrap its error.
ExecuteCase(controller, m, what) ==
    LET r == controller[m] IN
    IF r.err # Nil
    THEN Executed("", Errorf("failed to " \o what \o " - " \o r.err), <<m>>)
    ELSE Executed(IF m = "Status" THEN r.status ELSE "", NilError, <<m>>)

\* Mutant of Execute: the uninstall command is missing from the switch.
Execute_NoUninstall(command, controller) ==
    CASE command = GetStatus -> ExecuteCase(controller, "Status", "get daemon status")
      [] command = Start -> ExecuteCase(controller, "Start", "start daemon")
      [] command = Stop -> ExecuteCase(controller, "Stop", "stop daemon")
      [] command = Install -> ExecuteCase(controller, "Install", "install daemon")
      [] OTHER -> Executed("", Errorf("unknown daemon command '" \o command \o "'"), <<>>)

\* Execute
Execute(command, controller) ==
    CASE command = GetStatus -> ExecuteCase(controller, "Status", "get daemon status")
      [] command = Start -> ExecuteCase(controller, "Start", "start daemon")
      [] command = Stop -> ExecuteCase(controller, "Stop", "stop daemon")
      [] command = Install -> ExecuteCase(controller, "Install", "install daemon")
      [] command = Uninstall -> ExecuteCase(controller, "Uninstall", "uninstall daemon")
      [] OTHER -> Executed("", Errorf("unknown daemon command '" \o command \o "'"), <<>>)

\* One Execute call with command token command, on a Controller whose
\* method m returns r.
DoExecute ==
    \E command \in CommandTokens, m \in Methods :
    \E in \in MethodInputs(ctl.kind, m) :
        LET r == ControllerCall(ctl, sys, m, in)
            out == Execute(command, [x \in Methods |-> r])
        IN
        /\ out.invoked \in {<<>>, <<m>>}
        /\ out.invoked = <<>> => m = "Status"
        /\ ex' = [command |-> command, output |-> out.output, err |-> out.err,
                  invoked |-> out.invoked,
                  failure |-> IF out.invoked # <<>> /\ out.err.type # "nil"
                              THEN out.err.type ELSE ex.failure]
        /\ sys' = IF out.invoked = <<>> THEN sys ELSE r.sys
        /\ last' = IF out.invoked = <<>> THEN NoCall(sys)
                   ELSE [op |-> m, status |-> r.status, err |-> r.err,
                         calls |-> r.calls, daemonBefore |-> sys.daemon]
        /\ UNCHANGED <<cfg, host, ctl, prev, dz, sw, hf>>

ExecNext == DoExecute

ExecSpec == Init /\ [][ExecNext]_vars

\* C11: Execute with one of the five commands invokes the Controller method
\* of that command and no other, once; its output is the status string for
\* a GetStatus that succeeded and empty in every other case, and it returns
\* an error exactly when the method did, with the method's error text kept.
C11_ExecuteDispatch ==
    ex.command \in {GetStatus, Start, Stop, Install, Uninstall} =>
        /\ ex.invoked = <<CASE ex.command = "status" -> "Status"
                            [] ex.command = "start" -> "Start"
                            [] ex.command = "stop" -> "Stop"
                            [] ex.command = "install" -> "Install"
                            [] ex.command = "uninstall" -> "Uninstall">>
        /\ last.op = ex.invoked[1]
        /\ ex.err = NilError <=> last.err = Nil
        /\ ex.err # NilError => ex.output = ""
        /\ ex.output # "" => ex.command = GetStatus
        /\ (ex.command = GetStatus /\ ex.err = NilError) =>
              (ex.output = last.status /\ ex.output # "")
        /\ ex.err # NilError =>
              \E n \in 1..Len(ex.err.text) :
                  /\ SubSeq(ex.err.text, n, Len(ex.err.text)) = " - " \o last.err
                  /\ SubSeq(ex.err.text, 1, 10) = "failed to "

\* C11 witness: Execute("uninstall") that called Uninstall(), which
\* succeeded, and returned an empty output.
C11_Witness ==
    /\ ex.command = Uninstall /\ ex.invoked = <<"Uninstall">>
    /\ ex.err = NilError /\ ex.output = ""
    /\ last.op = "Uninstall" /\ sys.artifact = "absent"

\* C12 (as claimed): Execute with a token outside the five commands invokes
\* no Controller method, and the kind (the dynamic type) of the error it
\* returns differs from the kind of the error of a known command whose
\* execution failed.
C12_UnknownCommandDistinctKind ==
    (ex.command \notin {GetStatus, Start, Stop, Install, Uninstall, "none"}) =>
        /\ ex.invoked = <<>>
        /\ ex.err # NilError
        /\ ex.failure # "nil" => ex.err.type # ex.failure

\* What does hold of an unknown command: no method is invoked, the host is
\* left alone, the output is empty, and the error text names the token.
C12_UnknownCommandNoCall ==
    (ex.command \notin {GetStatus, Start, Stop, Install, Uninstall, "none"}) =>
        /\ ex.invoked = <<>> /\ ex.output = ""
        /\ last.op = "none" /\ last.calls = <<>>
        /\ ex.err.text = "unknown daemon command '" \o ex.command \o "'"

-----------------------------------------------------------------------------
(* The status mappings.                                                    *)

\* C13: when the unit file / init script is present, Status() of the systemd
\* and of the System V Controller runs the native status query and answers
\* by its exit code: 0 is Running, 3 is Stopped, 1 is StoppedDead, every
\* other code is Unknown; the error is nil in each case.
C13_LinuxExitCodeMapping ==
    (last.op = "Status" /\ ctl.kind \in LinuxKinds /\ sys.artifact = "file") =>
        /\ last.err = Nil
        /\ NativeQueryAt(last.calls) = {Len(last.calls)}
        /\ LET code == last.calls[Len(last.calls)].exitCode IN
           /\ code = 0 => last.status = Running
           /\ code = 3 => last.status = Stopped
           /\ code = 1 => last.status = StoppedDead
           /\ code \notin {0, 1, 3} => last.status = Unknown

\* C13 witness: a System V Status() whose query exited with 1 and that
\* answered StoppedDead.
C13_Witness ==
    /\ last.op = "Status" /\ ctl.kind = "systemv" /\ sys.artifact = "file"
    /\ last.calls[Len(last.calls)].tool = ctl.servicePath
    /\ last.calls[Len(last.calls)].exitCode = 1
    /\ last.status = StoppedDead /\ last.err = Nil

\* C14: Status() of the Windows Controller answers NotInstalled with a nil
\* error exactly when OpenService failed with the "does not exist" text; any
\* other failure of the open or of the query is returned as the error; a
\* query that succeeded is answered by the service state it reported.
C14_WindowsStatusMapping ==
    (last.op = "Status" /\ ctl.kind = "windows") =>
        LET opens == {i \in 1..Len(last.calls) : last.calls[i].tool = "OpenService"}
            queries == {i \in 1..Len(last.calls) : last.calls[i].tool = "Query"}
            absent == \E i \in opens : last.calls[i].exitCode = 1060
        IN
        /\ (last.status = NotInstalled /\ last.err = Nil) <=> absent
        /\ absent => (sys.artifact = "absent" /\ queries = {})
        /\ \A i \in opens : last.calls[i].exitCode \notin {0, 1060} =>
              (last.err # Nil /\ last.status = NoStatus /\ queries = {})
        /\ \A i \in queries :
              /\ last.calls[i].exitCode # 0 =>
                    (last.err # Nil /\ last.status = NoStatus)
              /\ last.calls[i].exitCode = 0 =>
                    /\ last.err = Nil
                    /\ LET state == last.calls[i].args[1] IN
                       /\ state = sys.daemon
                       /\ state = "StopPending" => last.status = Stopping
                       /\ state = "Stopped" => last.status = Stopped
                       /\ state = "StartPending" => last.status = Starting
                       /\ state = "Running" => last.status = Running
                       /\ state = "ContinuePending" => last.status = Resuming
                       /\ state = "PausePending" => last.status = Pausing
                       /\ state = "Paused" => last.status = Paused
                       /\ state \notin {"StopPending", "Stopped", "StartPending",
                                        "Running", "ContinuePending",
                                        "PausePending", "Paused"} =>
                              last.status = Unknown

\* C14 witness: a Windows Status() whose query reported ContinuePending and
\* that answered Resuming.
C14_Witness ==
    /\ last.op = "Status" /\ ctl.kind = "windows"
    /\ Len(last.calls) = 3 /\ last.calls[3].tool = "Query"
    /\ last.calls[3].exitCode = 0 /\ last.calls[3].args = <<"ContinuePending">>
    /\ last.status = Resuming /\ last.err = Nil

-----------------------------------------------------------------------------
(* The Daemonizers: NewDaemonizer and RunUntilExit.                        *)
(*                                                                         *)
(* dz is the process that runs a Daemonizer:                               *)
(*   pc        where RunUntilExit is: "ready" (not called yet), "handoff", *)
(*             "opened", "execed" (the System V handoff), "start",         *)
(*             "inStart", "started", "notified", "waiting", "received",    *)
(*             "loop" (the Windows callback's loop), "inStop", "returned", *)
(*             or "killed" (ended by a signal nobody was notified of)      *)
(*   mode      "interactive", "daemon", "handoff", "service" or "err"      *)
(*   calls     what the run did so far, in order                           *)
(*   ret       the error RunUntilExit returned, "pending" before that      *)
(*   notified  whether signal.Notify is in force                           *)
(*   nsig      the signals and control requests sent to the run so far     *)
(*   reqs      the control requests the Windows callback has not read yet  *)
(*   fd3       what descriptor 3 is when the detached System V daemon      *)
(*             begins: "pidfile" (the PID file handed over by its parent)  *)
(*             or "closed"; "none" in every other run                      *)
(*   pidFile   the contents of the PID file                                *)
(*   lastErr   the field lastErr of the serviceWrapper                     *)
(*   svcExit   what the Windows callback returned: <<>> before it did,     *)
(*             then <<svcSpecificEC, exitCode>>                            *)

\* The signals and control requests sent to one run.
MaxSignals == 2

\* The longest chain of ancestors of the process table.
MaxChain == 6

\* The iterations of the loop of isInitdOurParent.
walkBound == 5

\* NewDaemonizer: on Linux the same detection as NewController; Windows and
\* macOS have one Daemonizer each.
NewDaemonizer(logConfig, h) ==
    LET kind == CASE h.os = "linux" /\ IsSystemd(h).ok -> "systemd"
                  [] h.os = "linux" /\ ~IsSystemd(h).ok /\ IsSystemv(h).ok -> "systemv"
                  [] h.os = "linux" /\ ~IsSystemd(h).ok /\ ~IsSystemv(h).ok -> "err"
                  [] h.os = "darwin" -> "darwin"
                  [] OTHER -> "windows"
    IN [pc |-> "ready", kind |-> kind,
        reason |-> IF kind = "err" THEN IsSystemv(h).whyNotSysV ELSE "",
        native |-> logConfig.UseNativeLogger,
        mode |-> "none", ps1 |-> FALSE, args |-> <<>>, chain |-> <<>>,
        walk |-> [scriptPath |-> "", isInitd |-> FALSE, err |-> Nil, inspected |-> 0],
        calls |-> <<>>, ret |-> "pending", notified |-> FALSE, nsig |-> 0,
        reqs |-> <<>>, fd3 |-> "none", pidFile |-> "",
        lastErr |-> Nil, svcExit |-> <<>>]

\* strings.HasPrefix
HasPrefix(s, prefix) ==
    Len(s) >= Len(prefix) /\ SubSeq(s, 1, Len(prefix)) = prefix

RECURSIVE stripSlashes(_)
\* The path without its trailing slashes.
stripSlashes(p) ==
    IF Len(p) > 0 /\ SubSeq(p, Len(p), Len(p)) = "/"
    THEN stripSlashes(SubSeq(p, 1, Len(p) - 1))
    ELSE p

\* path.Base: the last element of the path; trailing slashes are removed
\* first, the empty path gives ".", a path of slashes only gives "/".
Base(path) ==
    IF path = "" THEN "."
    ELSE LET p == stripSlashes(path)
             slashes == {i \in 1..Len(p) : SubSeq(p, i, i) = "/"}
             from == IF slashes = {} THEN 1
                     ELSE 1 + CHOOSE i \in slashes : \A j \in slashes : j <= i
         IN IF p = "" THEN "/" ELSE SubSeq(p, from, Len(p))

\* Whether the one-character text c is a character of cutset.
InCutset(c, cutset) == \E k \in 1..Len(cutset) : SubSeq(cutset, k, k) = c

RECURSIVE TrimLeft(_, _)
TrimLeft(s, cutset) ==
    IF Len(s) > 0 /\ InCutset(SubSeq(s, 1, 1), cutset)
    THEN TrimLeft(SubSeq(s, 2, Len(s)), cutset)
    ELSE s

RECURSIVE TrimRight(_, _)
TrimRight(s, cutset) ==
    IF Len(s) > 0 /\ InCutset(SubSeq(s, Len(s), Len(s)), cutset)
    THEN TrimRight(SubSeq(s, 1, Len(s) - 1), cutset)
    ELSE s

\* strings.Trim: s without the leading and trailing characters of cutset.
Trim(s, cutset) == TrimRight(TrimLeft(s, cutset), cutset)

\* strings.TrimPrefix
TrimPrefix(s, prefix) ==
    IF HasPrefix(s, prefix) THEN SubSeq(s, Len(prefix) + 1, Len(s)) ELSE s

\* The tokens of a bufio.Scanner over text: its lines without their line
\* breaks; text after the last line break is a line when it is not empty.
ScanLines(text) ==
    LET breaks == {i \in 1..Len(text) : SubSeq(text, i, i) = "\n"}
        n == Cardinality(breaks)
        nth(k) == IF k = 0 THEN 0
                  ELSE CHOOSE i \in breaks :
                           Cardinality({j \in breaks : j < i}) = k - 1
        rest == SubSeq(text, nth(n) + 1, Len(text))
    IN [k \in 1..n |-> SubSeq(text, nth(k - 1) + 1, nth(k) - 1)]
           \o (IF rest = "" THEN <<>> ELSE <<rest>>)

\* Mutant of pidFilePathFromInitdScript: the value is returned as it is
\* written, quotes included.
pidFilePathFromInitdScript_NoTrim(text, openOk) ==
    LET prefix == pidFilePathVar \o "="
        lines == ScanLines(text)
        hits == {i \in 1..Len(lines) : HasPrefix(lines[i], prefix)}
    IN IF ~openOk
       THEN [path |-> "", err |-> "failed to open init.d script for parsing"]
       ELSE IF hits = {}
       THEN [path |-> "",
             err |-> "failed to find pid file path ('" \o prefix
                       \o "') in init.d script"]
       ELSE [path |-> TrimPrefix(lines[CHOOSE i \in hits : \A j \in hits : i <= j],
                                 prefix),
             err |-> Nil]

\* pidFilePathFromInitdScript, for the text of the script and whether the
\* script can be opened: the value of the first line that starts with
\* PID_FILE_PATH=, without the quotes around it.
pidFilePathFromInitdScript(text, openOk) ==
    LET prefix == pidFilePathVar \o "="
        lines == ScanLines(text)
        hits == {i \in 1..Len(lines) : HasPrefix(lines[i], prefix)}
    IN IF ~openOk
       THEN [path |-> "", err |-> "failed to open init.d script for parsing"]
       ELSE IF hits = {}
       THEN [path |-> "",
             err |-> "failed to find pid file path ('" \o prefix
                       \o "') in init.d script"]
       ELSE [path |-> Trim(TrimPrefix(lines[CHOOSE i \in hits : \A j \in hits : i <= j],
                                      prefix), "\"'"),
             err |-> Nil]

\* One ancestor of the process table: its command line as the elements of
\* /proc/<pid>/cmdline, and whether its cmdline and stat files can be read.
Ancestor(cmdline, cmdlineOk, statOk) ==
    [cmdline |-> cmdline, cmdlineOk |-> cmdlineOk, statOk |-> statOk]

\* The ancestors of the model: an interactive or login shell, an init.d
\* script run directly, by a shell, or by a shell with four options before
\* the script path, and shells whose /proc files cannot be read.
PlainAncestor == Ancestor(<<"-bash">>, TRUE, TRUE)

InitdAncestors ==
    { Ancestor(<<"/etc/init.d/test", "start">>, TRUE, TRUE),
      Ancestor(<<"/bin/sh", "/etc/init.d/test", "start">>, TRUE, TRUE),
      Ancestor(<<"/bin/sh", "-e", "-u", "-x", "/etc/init.d/test", "start">>,
               TRUE, TRUE) }

UnreadableAncestors ==
    { Ancestor(<<"-bash">>, FALSE, TRUE), Ancestor(<<"-bash">>, TRUE, FALSE) }

\* The chains of ancestors, from the direct parent up to the process whose
\* parent is PID 0: shells, with at most one other ancestor among them.
Chains ==
    UNION { { [i \in 1..n |-> PlainAncestor] }
            \cup { [i \in 1..n |-> IF i = k THEN a ELSE PlainAncestor] :
                     k \in 1..n, a \in InitdAncestors \cup UnreadableAncestors }
          : n \in 1..MaxChain }

\* Mutant of isPidInitd: every element of the command line is looked at.
isPidInitd_AnyElement(p) ==
    IF ~p.cmdlineOk
    THEN [scriptPath |-> "", isInitd |-> FALSE,
          err |-> "failed to read cmdline for process"]
    ELSE LET hits == {i \in 1..Len(p.cmdline) :
                        HasPrefix(p.cmdline[i], "/etc/init.d/")}
         IN IF hits = {}
            THEN [scriptPath |-> "", isInitd |-> FALSE, err |-> Nil]
            ELSE [scriptPath |-> p.cmdline[CHOOSE i \in hits : \A j \in hits : i <= j],
                  isInitd |-> TRUE, err |-> Nil]

\* isPidInitd: the first of the first four elements of the command line
\* that starts with /etc/init.d/.
isPidInitd(p) ==
    IF ~p.cmdlineOk
    THEN [scriptPath |-> "", isInitd |-> FALSE,
          err |-> "failed to read cmdline for process"]
    ELSE LET hits == {i \in 1..Len(p.cmdline) :
                        i <= 4 /\ HasPrefix(p.cmdline[i], "/etc/init.d/")}
         IN IF hits = {}
            THEN [scriptPath |-> "", isInitd |-> FALSE, err |-> Nil]
            ELSE [scriptPath |-> p.cmdline[CHOOSE i \in hits : \A j \in hits : i <= j],
                  isInitd |-> TRUE, err |-> Nil]

RECURSIVE walkFrom(_, _)
\* The loop of isInitdOurParent from iteration i (counted from 0): iteration
\* i looks at ancestor i + 1, whose PID it reads from the stat file of
\* ancestor i; the parent of the last ancestor of the chain is PID 0.
walkFrom(chain, i) ==
    LET out(path, found, err, n) ==
            [scriptPath |-> path, isInitd |-> found, err |-> err, inspected |-> n]
    IN
    IF i >= walkBound THEN out("", FALSE, Nil, i)
    ELSE IF i # 0 /\ ~chain[i].statOk
    THEN out("", FALSE, "failed to read stat for process", i)
    ELSE IF i # 0 /\ i + 1 > Len(chain) THEN out("", FALSE, Nil, i)
    ELSE LET r == isPidInitd(chain[i + 1]) IN
         IF r.err # Nil THEN out("", FALSE, r.err, i + 1)
         ELSE IF r.isInitd THEN out(r.scriptPath, TRUE, Nil, i + 1)
         ELSE walkFrom(chain, i + 1)

\* isInitdOurParent, for the chain of ancestors that starts at os.Getppid().
isInitdOurParent(chain) == walkFrom(chain, 0)

\* The hosts a Daemonizer is built on: every Linux host by what the detector
\* looks at, one macOS host and one Windows host.
DaemonHosts ==
    { [Host("linux", files \cup {"/sbin/chkconfig", "/usr/sbin/update-rc.d"},
            code, redhat) EXCEPT !.serviceUsage = usage] :
        files \in SUBSET {"/bin/systemctl", "/sbin/service", "/usr/sbin/service"},
        code \in {0, 1}, usage \in BOOLEAN, redhat \in {"absent", "file"} }
    \cup { Host("darwin", {}, 1, "absent"), Host("windows", {}, 1, "absent") }

\* The state after NewController and NewDaemonizer were called on a host,
\* whatever they returned.
DaemonInit ==
    /\ host \in DaemonHosts
    /\ cfg \in {c \in Configs(host) :
                  /\ c.StartType = StartImmediately /\ c.Arguments = <<>>
                  /\ c.RunAs = "" /\ ~c.UseNativeLogger}
    /\ ctl = NewController(cfg, host)
    /\ sys \in {s \in InitialSys(ctl.kind) : s.artifact = "absent"}
    /\ last = NoCall(sys)
    /\ prev = Summary(last)
    /\ ex = NoExecute
    /\ \E native \in BOOLEAN : dz = NewDaemonizer([UseNativeLogger |-> native], host)
    /\ sw = NoWait
    /\ hf = NoHandoff

\* One step of the run that leaves the process as d.
Run(d) == dz' = d /\ UNCHANGED <<cfg, host, ctl, sys, last, prev, ex, sw, hf>>

\* Mutant of the return from RunUntilExit: the deferred function of the
\* detached System V daemon only closes descriptor 3.
Returned_CloseOnly(d, err) ==
    IF d.kind = "systemv" /\ d.mode = "daemon"
    THEN [d EXCEPT !.pc = "returned", !.ret = err,
                   !.calls = Append(@, Call("fs", "Close", <<"fd3">>,
                                            IF d.fd3 = "pidfile" THEN 0 ELSE 1))]
    ELSE [d EXCEPT !.pc = "returned", !.ret = err]

\* What a return from RunUntilExit leaves: the deferred function of the
\* detached System V daemon first seeks, truncates and closes descriptor 3,
\* whose errors it drops; the PID file is emptied when descriptor 3 is the
\* PID file.
Returned(d, err) ==
    IF d.kind = "systemv" /\ d.mode = "daemon"
    THEN LET code == IF d.fd3 = "pidfile" THEN 0 ELSE 1 IN
         [d EXCEPT !.pc = "returned", !.ret = err,
                   !.pidFile = IF d.fd3 = "pidfile" THEN "" ELSE @,
                   !.calls = @ \o <<Call("fs", "Seek", <<"fd3", "0">>, code),
                                    Call("fs", "Truncate", <<"fd3", "0">>, code),
                                    Call("fs", "Close", <<"fd3">>, code)>>]
    ELSE [d EXCEPT !.pc = "returned", !.ret = err]

\* Mutant of the logger setup: made in an interactive run too.
LogSetup_Always(d, ps1) ==
    IF d.native THEN <<Call("log", "log.SetOutput", <<"os.Stderr">>, 0)>>
    ELSE <<>>

\* log.SetOutput(os.Stderr), made when the native logger is asked for and
\* the run is not interactive.
LogSetup(d, ps1) ==
    IF d.native /\ ~ps1 THEN <<Call("log", "log.SetOutput", <<"os.Stderr">>, 0)>>
    ELSE <<>>

\* errDaemonizer.RunUntilExit
ErrRunUntilExit ==
    /\ dz.kind = "err" /\ dz.pc = "ready"
    /\ Run(Returned([dz EXCEPT !.mode = "err"],
                    "no suitable daemonization logic available for this system - "
                        \o dz.reason))

\* systemdDaemonizer.RunUntilExit, up to the call of Start().
SystemdRunUntilExit ==
    /\ dz.kind = "systemd" /\ dz.pc = "ready"
    /\ \E ps1 \in BOOLEAN :
          Run([dz EXCEPT !.pc = "start", !.ps1 = ps1,
                         !.mode = IF ps1 THEN "interactive" ELSE "daemon",
                         !.calls = LogSetup(dz, ps1)])

\* darwinDaemon.RunUntilExit, up to the call of Start().
DarwinRunUntilExit ==
    /\ dz.kind = "darwin" /\ dz.pc = "ready"
    /\ \E ps1 \in BOOLEAN, mkdir \in BOOLEAN :
          LET d == [dz EXCEPT !.ps1 = ps1,
                              !.mode = IF ps1 THEN "interactive" ELSE "daemon"]
              made == Call("fs", "os.MkdirAll", <<"stderr log directory">>,
                           IF mkdir THEN 0 ELSE 1)
          IN IF ~ps1 /\ dz.native
             THEN IF ~mkdir
                  THEN Run(Returned([d EXCEPT !.calls = <<made>>], "mkdir failed"))
                  ELSE Run([d EXCEPT !.pc = "start",
                                     !.calls = <<made>> \o LogSetup(dz, ps1)])
             ELSE mkdir /\ Run([d EXCEPT !.pc = "start"])

\* systemvDaemonizer.RunUntilExit, up to the handoff or the call of Start():
\* an interactive run goes straight to Start(), whatever its ancestors are
\* and whatever a PID file holds; another run walks its
\* ancestors, and hands off, fails, or takes descriptor 3 as its PID file
\* (which its parent has or has not written the PID to yet).
SystemvRunUntilExit ==
    /\ dz.kind = "systemv" /\ dz.pc = "ready"
    /\ \E ps1 \in BOOLEAN, args \in ArgLists(MaxArgs), chain \in Chains :
          LET walk == isInitdOurParent(chain)
              d == [dz EXCEPT !.ps1 = ps1, !.args = args,
                              !.calls = LogSetup(dz, ps1)]
          IN IF ps1
             THEN \E content \in {"", "child pid"} :
                     /\ Len(chain) <= 2
                     /\ Run([d EXCEPT !.pc = "start", !.mode = "interactive",
                                      !.chain = chain, !.pidFile = content])
             ELSE LET w == [d EXCEPT !.chain = chain, !.walk = walk] IN
                  IF walk.isInitd
                  THEN Run([w EXCEPT !.pc = "handoff", !.mode = "handoff"])
                  ELSE IF walk.err # Nil
                  THEN Run(Returned([w EXCEPT !.mode = "handoff"],
                           "failed to determine if init.d started the process - "
                               \o walk.err))
                  ELSE \E fd3 \in {"pidfile", "closed"},
                          content \in {"", "child pid"} :
                          /\ fd3 = "closed" => content = ""
                          /\ Run([w EXCEPT !.pc = "start", !.mode = "daemon",
                                           !.fd3 = fd3, !.pidFile = content,
                                           !.calls = @ \o <<Call("fs", "os.NewFile",
                                                                <<"3">>, 0)>>])

\* Mutant of the first part of the handoff: the error of os.OpenFile is
\* dropped.
HandoffOpen_ExecAnyway ==
    /\ dz.pc = "handoff"
    /\ \E exeOk \in BOOLEAN, pidLine \in {"", "/run/test.pid"}, openOk \in BOOLEAN :
          LET base == Base(dz.walk.scriptPath)
              pidFilePath == IF pidLine # "" THEN pidLine
                             ELSE defaultPidFilePath(base)
              exe == Call("proc", "os.Executable", <<>>, IF exeOk THEN 0 ELSE 1)
              opened == Call("fs", "os.OpenFile",
                             <<pidFilePath, "O_CREATE|O_TRUNC|O_WRONLY">>,
                             IF openOk THEN 0 ELSE 1)
          IN IF ~exeOk
             THEN /\ pidLine = "" /\ openOk
                  /\ Run(Returned([dz EXCEPT !.calls = Append(@, exe)],
                         "failed to get executable path when exec'ing daemon - os.Executable failed"))
             ELSE IF ~openOk
             THEN Run([dz EXCEPT !.pc = "opened", !.calls = @ \o <<exe, opened>>])
             ELSE Run([dz EXCEPT !.pc = "opened", !.pidFile = "",
                                 !.calls = @ \o <<exe, opened>>])

\* The handoff, first part: the executable path, the child's command, the
\* PID file path (from the init.d script, or else the default one) and the
\* opening of the PID file.
HandoffOpen ==
    /\ dz.pc = "handoff"
    /\ \E exeOk \in BOOLEAN, pidLine \in {"", "/run/test.pid"}, openOk \in BOOLEAN :
          LET base == Base(dz.walk.scriptPath)
              pidFilePath == IF pidLine # "" THEN pidLine
                             ELSE defaultPidFilePath(base)
              exe == Call("proc", "os.Executable", <<>>, IF exeOk THEN 0 ELSE 1)
              opened == Call("fs", "os.OpenFile",
                             <<pidFilePath, "O_CREATE|O_TRUNC|O_WRONLY">>,
                             IF openOk THEN 0 ELSE 1)
          IN IF ~exeOk
             THEN /\ pidLine = "" /\ openOk
                  /\ Run(Returned([dz EXCEPT !.calls = Append(@, exe)],
                         "failed to get executable path when exec'ing daemon - os.Executable failed"))
             ELSE IF ~openOk
             THEN Run(Returned([dz EXCEPT !.calls = @ \o <<exe, opened>>],
                      "failed to open pid file - permission denied"))
             ELSE Run([dz EXCEPT !.pc = "opened", !.pidFile = "",
                                 !.calls = @ \o <<exe, opened>>])

\* Mutant of the second part of the handoff: the child is started without
\* the arguments of the parent.
HandoffExec_NoArgs ==
    /\ dz.pc = "opened"
    /\ \E ok \in BOOLEAN :
          LET pidFilePath == dz.calls[Len(dz.calls)].args[1]
              started == CallD("proc", "cmd.Start", <<host.exePath>>,
                               IF ok THEN 0 ELSE 1, <<pidFilePath>>)
          IN IF ok
             THEN Run([dz EXCEPT !.pc = "execed", !.calls = Append(@, started)])
             ELSE Run(Returned([dz EXCEPT !.calls = Append(@, started)],
                      "failed to exec daemon process - fork/exec failed"))

\* The handoff, second part: daemon.Start() starts the child, the
\* executable with os.Args[1:], the PID file as its first extra file
\* (descriptor 3), and stderr when the native logger is asked for.
HandoffExec ==
    /\ dz.pc = "opened"
    /\ \E ok \in BOOLEAN :
          LET pidFilePath == dz.calls[Len(dz.calls)].args[1]
              started == CallD("proc", "cmd.Start", <<host.exePath>> \o dz.args,
                               IF ok THEN 0 ELSE 1, <<pidFilePath>>)
          IN IF ok
             THEN Run([dz EXCEPT !.pc = "execed", !.calls = Append(@, started)])
             ELSE Run(Returned([dz EXCEPT !.calls = Append(@, started)],
                      "failed to exec daemon process - fork/exec failed"))

\* The handoff, last part: the child's PID is written to the PID file and
\* RunUntilExit returns.
HandoffWrite ==
    /\ dz.pc = "execed"
    /\ \E ok \in BOOLEAN :
          LET pidFilePath == dz.calls[Len(dz.calls)].data[1]
              written == CallD("fs", "WriteString", <<pidFilePath>>,
                               IF ok THEN 0 ELSE 1,
                               IF ok THEN <<"child pid">> ELSE <<>>)
          IN Run(Returned([dz EXCEPT !.calls = Append(@, written),
                                     !.pidFile = IF ok THEN "child pid" ELSE @],
                          IF ok THEN Nil
                          ELSE "failed to write daemon pid to pid file - write failed"))

\* Mutant of serviceWrapper.setStartStopError: the error is not stored.
setStartStopError_Drop(d, err) ==
    [d EXCEPT !.calls = @ \o <<Call("mu", "Lock", <<>>, 0),
                               Call("mu", "Unlock", <<>>, 0)>>]

\* serviceWrapper.setStartStopError: lastErr is written under the mutex.
setStartStopError(d, err) ==
    [d EXCEPT !.lastErr = err,
              !.calls = @ \o <<Call("mu", "Lock", <<>>, 0),
                               Call("mu", "lastErr=", <<err>>, 0),
                               Call("mu", "Unlock", <<>>, 0)>>]

\* Mutant of the end of serviceWrapper.runAndBlock: the error of svc.Run
\* goes before the error of the callbacks.
runAndBlock_RunErrFirst(d, runErr) ==
    Returned([d EXCEPT !.calls = @ \o
                <<CallD("svc", "svc.Run returns", <<>>,
                        IF runErr = Nil THEN 0 ELSE 1,
                        IF runErr = Nil THEN <<>> ELSE <<runErr>>),
                  Call("mu", "Lock", <<>>, 0),
                  Call("mu", "lastErr", <<d.lastErr>>, 0),
                  Call("mu", "Unlock", <<>>, 0)>>],
             IF runErr # Nil THEN runErr ELSE d.lastErr)

\* The end of serviceWrapper.runAndBlock and of RunUntilExit: svc.Run returns
\* runErr, lastErr is read under the mutex (startStopErr) and is returned
\* when it is not nil, runErr otherwise.
runAndBlock(d, runErr) ==
    Returned([d EXCEPT !.calls = @ \o
                <<CallD("svc", "svc.Run returns", <<>>,
                        IF runErr = Nil THEN 0 ELSE 1,
                        IF runErr = Nil THEN <<>> ELSE <<runErr>>),
                  Call("mu", "Lock", <<>>, 0),
                  Call("mu", "lastErr", <<d.lastErr>>, 0),
                  Call("mu", "Unlock", <<>>, 0)>>],
             IF d.lastErr # Nil THEN d.lastErr ELSE runErr)

\* windowsDaemonizer.RunUntilExit, up to the call of Start(): in an
\* interactive session directly; otherwise through runAndBlock, which
\* clears lastErr and calls svc.Run, whose callback Execute reports
\* StartPending first.
WindowsRunUntilExit ==
    /\ dz.kind = "windows" /\ dz.pc = "ready"
    /\ \E session \in {"interactive", "service", "err"},
          eventsOk \in BOOLEAN, runOk \in BOOLEAN :
          LET events == IF dz.native
                        THEN <<Call("svc", "eventlog.Open", <<>>,
                                    IF eventsOk THEN 0 ELSE 1)>>
                        ELSE <<>>
              d == [setStartStopError([dz EXCEPT !.mode = "service",
                                                 !.calls = events], Nil)
                      EXCEPT !.calls = Append(@, Call("svc", "svc.Run", <<>>, 0))]
          IN CASE session = "err" ->
                    /\ eventsOk /\ runOk
                    /\ Run(Returned([dz EXCEPT !.mode = "err"],
                                    "IsAnInteractiveSession failed"))
               [] session = "interactive" ->
                    /\ eventsOk /\ runOk
                    /\ Run([dz EXCEPT !.pc = "start", !.mode = "interactive",
                                      !.ps1 = TRUE])
               [] OTHER ->
                    IF dz.native /\ ~eventsOk
                    THEN runOk /\ Run(Returned([dz EXCEPT !.mode = "service",
                                                          !.calls = events],
                                               "eventlog.Open failed"))
                    ELSE /\ ~dz.native => eventsOk
                         /\ IF ~runOk
                            THEN Run(runAndBlock(d, "svc.Run failed"))
                            ELSE Run([d EXCEPT !.pc = "start", !.calls =
                                        Append(@, Call("svc", "changes<-",
                                                       <<"StartPending">>, 0))])

\* A callback of the application that returned err; data holds the error.
AppCall(name, err) ==
    CallD("app", name, <<>>, IF err = Nil THEN 0 ELSE 1,
          IF err = Nil THEN <<>> ELSE <<err>>)

\* application.Start() is called.
CallStart ==
    /\ dz.pc = "start"
    /\ Run([dz EXCEPT !.pc = "inStart"])

\* Mutant of the return of application.Start(): its error is dropped.
StartReturns_IgnoreError ==
    /\ dz.pc = "inStart"
    /\ \E err \in {Nil, "start failed"} :
          LET d == [dz EXCEPT !.calls = Append(@, AppCall("Start", err))]
          IN IF dz.mode = "service"
             THEN Run([d EXCEPT !.pc = "loop",
                                !.calls = Append(@, Call("svc", "changes<-",
                                     <<"Running", "AcceptStop|AcceptShutdown">>, 0))])
             ELSE Run([d EXCEPT !.pc = "started"])

\* Mutant of the return of application.Start(): the Windows callback enters
\* its loop without reporting Running.
StartReturns_NoRunning ==
    /\ dz.pc = "inStart"
    /\ \E err \in {Nil, "start failed"}, runErr \in {Nil, "svc.Run failed"} :
          LET d == [dz EXCEPT !.calls = Append(@, AppCall("Start", err))]
          IN IF err # Nil /\ dz.mode = "service"
             THEN Run(runAndBlock([setStartStopError(d, err)
                                     EXCEPT !.svcExit = <<TRUE, 1>>], runErr))
             ELSE IF runErr # Nil THEN FALSE
             ELSE IF err # Nil THEN Run(Returned(d, err))
             ELSE IF dz.mode = "service" THEN Run([d EXCEPT !.pc = "loop"])
             ELSE Run([d EXCEPT !.pc = "started"])

\* application.Start() returns: with an error, RunUntilExit returns it (in
\* the Windows callback through setStartStopError and runAndBlock); without,
\* the Windows callback reports Running and enters its loop, the others go
\* on to signal.Notify.
StartReturns ==
    /\ dz.pc = "inStart"
    /\ \E err \in {Nil, "start failed"}, runErr \in {Nil, "svc.Run failed"} :
          LET d == [dz EXCEPT !.calls = Append(@, AppCall("Start", err))]
          IN IF err # Nil /\ dz.mode = "service"
             THEN Run(runAndBlock([setStartStopError(d, err)
                                     EXCEPT !.svcExit = <<TRUE, 1>>], runErr))
             ELSE IF runErr # Nil THEN FALSE
             ELSE IF err # Nil THEN Run(Returned(d, err))
             ELSE IF dz.mode = "service"
             THEN Run([d EXCEPT !.pc = "loop",
                                !.calls = Append(@, Call("svc", "changes<-",
                                     <<"Running", "AcceptStop|AcceptShutdown">>, 0))])
             ELSE Run([d EXCEPT !.pc = "started"])

\* The signals RunUntilExit asks to be notified of.
NotifiedSignals(kind) ==
    IF kind = "windows" THEN <<"SIGINT">> ELSE <<"SIGINT", "SIGTERM">>

\* signal.Notify on a fresh, unbuffered channel.
Notify ==
    /\ dz.pc = "started"
    /\ Run([dz EXCEPT !.pc = "notified", !.notified = TRUE,
                      !.calls = Append(@, Call("sig", "signal.Notify",
                                               NotifiedSignals(dz.kind), 0))])

\* RunUntilExit blocks on the channel.
Wait ==
    /\ dz.pc = "notified"
    /\ Run([dz EXCEPT !.pc = "waiting"])

\* A signal is sent to the process while RunUntilExit runs: one that is
\* notified reaches the channel when RunUntilExit is blocked on it and is
\* dropped otherwise (the channel has no buffer); one that is not notified
\* ends the process, as the Go runtime does by default.
Signal ==
    /\ dz.pc \notin {"none", "ready", "returned", "killed"}
    /\ dz.mode # "service"
    /\ dz.nsig < MaxSignals
    /\ \E sig \in {"SIGINT", "SIGTERM"} :
          LET d == [dz EXCEPT !.nsig = @ + 1] IN
          IF dz.notified /\ \E i \in 1..Len(NotifiedSignals(dz.kind)) :
                                NotifiedSignals(dz.kind)[i] = sig
          THEN IF dz.pc = "waiting"
               THEN Run([d EXCEPT !.pc = "received",
                                  !.calls = Append(@, Call("sig", "<-", <<sig>>, 0))])
               ELSE Run(d)
          ELSE Run([d EXCEPT !.pc = "killed"])

\* signal.Stop, and application.Stop() is called.
CallStop ==
    /\ dz.pc = "received"
    /\ Run([dz EXCEPT !.pc = "inStop", !.notified = FALSE,
                      !.calls = Append(@, Call("sig", "signal.Stop", <<>>, 0))])

\* Mutant of the return of application.Stop(): the Windows callback leaves
\* the switch, not the loop, when Stop() succeeded.
StopReturns_BreakSwitch ==
    /\ dz.pc = "inStop"
    /\ \E err \in {Nil, "stop failed"} :
          LET d == [dz EXCEPT !.calls = Append(@, AppCall("Stop", err))] IN
          IF dz.mode = "service" /\ err = Nil THEN Run([d EXCEPT !.pc = "loop"])
          ELSE Run(Returned(d, err))

\* application.Stop() returns, and RunUntilExit returns what it returned (in
\* the Windows callback through setStartStopError and runAndBlock).
StopReturns ==
    /\ dz.pc = "inStop"
    /\ \E err \in {Nil, "stop failed"}, runErr \in {Nil, "svc.Run failed"} :
          LET d == [dz EXCEPT !.calls = Append(@, AppCall("Stop", err))] IN
          IF dz.mode # "service" THEN runErr = Nil /\ Run(Returned(d, err))
          ELSE IF err # Nil
          THEN Run(runAndBlock([setStartStopError(d, err)
                                  EXCEPT !.svcExit = <<TRUE, 2>>], runErr))
          ELSE Run(runAndBlock([d EXCEPT !.svcExit = <<FALSE, 0>>], runErr))

\* The Service Control Manager sends a control request to the service; the
\* request carries the status the service was last known to be in.
SvcRequest ==
    /\ dz.mode = "service" /\ dz.pc \notin {"returned", "killed"}
    /\ dz.nsig < MaxSignals
    /\ \E cmd \in {"Interrogate", "Stop", "Shutdown", "Pause", "Continue"},
          status \in {<<"Running", "AcceptStop|AcceptShutdown">>,
                      <<"StartPending", "">>} :
          Run([dz EXCEPT !.nsig = @ + 1,
                         !.reqs = Append(@, [Cmd |-> cmd, CurrentStatus |-> status])])

\* Mutant of the loop of serviceWrapper.Execute: a request that is not
\* Interrogate is taken as Stop.
SvcHandle_OtherStops ==
    /\ dz.pc = "loop" /\ dz.reqs # <<>>
    /\ LET c == Head(dz.reqs)
           d == [dz EXCEPT !.reqs = Tail(@),
                           !.calls = Append(@, CallD("svc", "<-r", <<c.Cmd>>, 0,
                                                     c.CurrentStatus))]
       IN IF c.Cmd = "Interrogate"
          THEN Run([d EXCEPT !.calls = Append(@, Call("svc", "changes<-",
                                                      c.CurrentStatus, 0))])
          ELSE Run([d EXCEPT !.pc = "inStop",
                             !.calls = Append(@, Call("svc", "changes<-",
                                                      <<"StopPending">>, 0))])

\* Mutant of the loop of serviceWrapper.Execute: Stop and Shutdown call
\* application.Stop() without reporting StopPending.
SvcHandle_NoStopPending ==
    /\ dz.pc = "loop" /\ dz.reqs # <<>>
    /\ LET c == Head(dz.reqs)
           d == [dz EXCEPT !.reqs = Tail(@),
                           !.calls = Append(@, CallD("svc", "<-r", <<c.Cmd>>, 0,
                                                     c.CurrentStatus))]
       IN CASE c.Cmd = "Interrogate" ->
                 Run([d EXCEPT !.calls = Append(@, Call("svc", "changes<-",
                                                        c.CurrentStatus, 0))])
            [] c.Cmd \in {"Stop", "Shutdown"} -> Run([d EXCEPT !.pc = "inStop"])
            [] OTHER -> Run(d)

\* Mutant of the loop of serviceWrapper.Execute: Interrogate is answered
\* with the status Execute reported last.
SvcHandle_EchoRunning ==
    /\ dz.pc = "loop" /\ dz.reqs # <<>>
    /\ LET c == Head(dz.reqs)
           d == [dz EXCEPT !.reqs = Tail(@),
                           !.calls = Append(@, CallD("svc", "<-r", <<c.Cmd>>, 0,
                                                     c.CurrentStatus))]
       IN CASE c.Cmd = "Interrogate" ->
                 Run([d EXCEPT !.calls = Append(@, Call("svc", "changes<-",
                                                        <<"Running", "AcceptStop|AcceptShutdown">>, 0))])
            [] c.Cmd \in {"Stop", "Shutdown"} ->
                 Run([d EXCEPT !.pc = "inStop",
                               !.calls = Append(@, Call("svc", "changes<-",
                                                        <<"StopPending">>, 0))])
            [] OTHER -> Run(d)

\* One turn of the loop of serviceWrapper.Execute: Interrogate is answered
\* with the CurrentStatus of the request, Stop and Shutdown report
\* StopPending and call application.Stop(), any other request is skipped.
SvcHandle ==
    /\ dz.pc = "loop" /\ dz.reqs # <<>>
    /\ LET c == Head(dz.reqs)
           d == [dz EXCEPT !.reqs = Tail(@),
                           !.calls = Append(@, CallD("svc", "<-r", <<c.Cmd>>, 0,
                                                     c.CurrentStatus))]
       IN CASE c.Cmd = "Interrogate" ->
                 Run([d EXCEPT !.calls = Append(@, Call("svc", "changes<-",
                                                        c.CurrentStatus, 0))])
            [] c.Cmd \in {"Stop", "Shutdown"} ->
                 Run([d EXCEPT !.pc = "inStop",
                               !.calls = Append(@, Call("svc", "changes<-",
                                                        <<"StopPending">>, 0))])
            [] OTHER -> Run(d)

DaemonNext ==
    \/ ErrRunUntilExit \/ SystemdRunUntilExit \/ DarwinRunUntilExit
    \/ SystemvRunUntilExit \/ HandoffOpen \/ HandoffExec \/ HandoffWrite
    \/ WindowsRunUntilExit
    \/ CallStart \/ StartReturns \/ Notify \/ Wait \/ Signal \/ CallStop
    \/ StopReturns \/ SvcRequest \/ SvcHandle

DaemonSpec == DaemonInit /\ [][DaemonNext]_vars

-----------------------------------------------------------------------------
(* Detection.                                                              *)

\* C15: on Linux, NewController and NewDaemonizer select systemd exactly
\* when a systemctl binary is found and exits with 0 when run without
\* arguments, whether or not System V is there too; when systemctl is
\* missing or exits with another code, they go on to the System V test and
\* select System V exactly when that test passes.
C15_SystemdPreferred ==
    host.os = "linux" =>
        LET systemd == "/bin/systemctl" \in host.files /\ host.systemctlExit = 0
            systemv == /\ {"/sbin/service", "/usr/sbin/service"} \cap host.files # {}
                       /\ host.serviceUsage
        IN
        /\ ctl.kind = "systemd" <=> systemd
        /\ dz.kind = "systemd" <=> systemd
        /\ ctl.kind = "systemv" <=> (~systemd /\ systemv)
        /\ dz.kind = "systemv" <=> (~systemd /\ systemv)
        /\ systemd => ctl.systemctlPath = "/bin/systemctl"

\* C15 witness: a host whose systemctl binary exits with 1 and whose service
\* binary answers with its usage; the Controller and the Daemonizer are the
\* System V ones, and the Daemonizer has run.
C15_Witness ==
    /\ host.os = "linux" /\ "/bin/systemctl" \in host.files
    /\ host.systemctlExit = 1 /\ host.serviceUsage
    /\ ctl.kind = "systemv" /\ dz.kind = "systemv" /\ dz.pc = "returned"

\* C16: on a Linux host where neither systemd nor System V is detected,
\* NewController fails with the reason of the System V test (the failed
\* search for the service binary, or its unexpected output), and the
\* Daemonizer's RunUntilExit returns an error that carries this reason,
\* without a call of Start() or Stop().
C16_NoManagerDetected ==
    LET systemd == "/bin/systemctl" \in host.files /\ host.systemctlExit = 0
        found == {"/sbin/service", "/usr/sbin/service"} \cap host.files
        reason == IF found = {}
                  THEN "failed to locate 'service' executable in the following directory paths: [/sbin /usr/sbin]"
                  ELSE "'" \o (IF "/sbin/service" \in found THEN "/sbin/service"
                               ELSE "/usr/sbin/service")
                           \o "' did not produce expected output"
    IN (host.os = "linux" /\ ~systemd /\ (found = {} \/ ~host.serviceUsage)) =>
        /\ ctl.kind = "none" /\ ctl.err = reason
        /\ dz.kind = "err" /\ dz.pc \in {"ready", "returned"}
        /\ dz.calls = <<>>
        /\ dz.pc = "returned" =>
              dz.ret = "no suitable daemonization logic available for this system - "
                           \o reason

\* C16 witness: a host without systemctl whose service binary does not
\* answer with its usage, after RunUntilExit returned.
C16_Witness ==
    /\ host.os = "linux" /\ "/bin/systemctl" \notin host.files
    /\ "/usr/sbin/service" \in host.files /\ ~host.serviceUsage
    /\ dz.kind = "err" /\ dz.pc = "returned" /\ dz.ret # Nil
    /\ ctl.err # Nil

-----------------------------------------------------------------------------
(* The runs of the Daemonizers.                                            *)

\* The positions where a run read a stop signal from its channel, and where
\* the Windows callback read a Stop or Shutdown request.
SignalReadAt(calls) == ToolAt(calls, "<-")
StopRequestAt(calls) ==
    {i \in ToolAt(calls, "<-r") : calls[i].args[1] \in {"Stop", "Shutdown"}}

\* C17: in every run of a Daemonizer, a stop signal or a Stop / Shutdown
\* request is read only after Start() returned without error; Stop() is
\* called at most once, only after such a read, and so only after Start()
\* returned without error; a run reads either a signal or a Stop / Shutdown
\* request, never both. (A signal that arrives while nobody is notified of
\* it ends the process; the Daemonizer does not act on it.)
C17_StartBeforeStop ==
    LET calls == dz.calls
        started == {i \in ToolAt(calls, "Start") : calls[i].exitCode = 0}
        reads == SignalReadAt(calls) \cup StopRequestAt(calls)
        stopping == (IF dz.pc = "inStop" THEN 1 ELSE 0)
                      + Cardinality(ToolAt(calls, "Stop"))
    IN dz.pc # "none" =>
        /\ Cardinality(ToolAt(calls, "Start")) <= 1
        /\ \A i \in reads : \E j \in started : j < i
        /\ dz.pc \in {"received", "inStop"} => started # {}
        /\ stopping <= 1
        /\ stopping = 1 => Cardinality(reads) = 1
        /\ \A i \in ToolAt(calls, "Stop") : \E j \in reads : j < i
        /\ SignalReadAt(calls) = {} \/ StopRequestAt(calls) = {}
        /\ dz.mode = "service" => SignalReadAt(calls) = {}
        /\ dz.mode # "service" => StopRequestAt(calls) = {}

\* C17 witness: a run of the Windows callback that was sent Stop and then
\* Shutdown, called Stop() once and returned.
C17_Witness ==
    /\ dz.kind = "windows" /\ dz.mode = "service" /\ dz.pc = "returned"
    /\ dz.nsig = 2 /\ Len(dz.reqs) = 1 /\ dz.reqs[1].Cmd = "Shutdown"
    /\ Cardinality(ToolAt(dz.calls, "Stop")) = 1
    /\ Cardinality(StopRequestAt(dz.calls)) = 1

\* C18: a run of a Unix Daemonizer that called Start() returns the error of
\* Start(), without a call of Stop(), when Start() failed; the error of
\* Stop() when Stop() failed; nil when both succeeded. What it returns is
\* never about the signal it read.
C18_UnixReturnValue ==
    LET calls == dz.calls
        starts == ToolAt(calls, "Start")
        stops == ToolAt(calls, "Stop")
    IN (dz.kind \in {"systemd", "systemv", "darwin"} /\ dz.pc = "returned"
          /\ starts # {}) =>
        /\ \A i \in starts : calls[i].exitCode # 0 =>
              (dz.ret = calls[i].data[1] /\ stops = {})
        /\ \A i \in stops : calls[i].exitCode # 0 => dz.ret = calls[i].data[1]
        /\ (\A i \in starts \cup stops : calls[i].exitCode = 0) => dz.ret = Nil
        /\ \A i \in starts : calls[i].exitCode = 0 =>
              (stops # {} /\ SignalReadAt(calls) # {})
        /\ dz.ret # Nil => \E i \in starts \cup stops :
                               calls[i].exitCode # 0 /\ dz.ret = calls[i].data[1]

\* C18 witness: a run of the detached System V daemon that read SIGTERM and
\* whose Stop() failed.
C18_Witness ==
    /\ dz.kind = "systemv" /\ dz.mode = "daemon" /\ dz.pc = "returned"
    /\ \E i \in SignalReadAt(dz.calls) : dz.calls[i].args = <<"SIGTERM">>
    /\ \E i \in ToolAt(dz.calls, "Stop") : dz.calls[i].exitCode = 1
    /\ dz.ret = "stop failed"

-----------------------------------------------------------------------------
(* The System V handoff.                                                   *)

\* The elements of the command line of ancestor p that start with
\* /etc/init.d/, among all of them and among the first four.
InitdElements(p) ==
    {i \in 1..Len(p.cmdline) : HasPrefix(p.cmdline[i], "/etc/init.d/")}
FirstFourInitdElements(p) == {i \in InitdElements(p) : i <= 4}

\* The ancestors the walk can get to, and whether what it reads of them can
\* be read: the command line of each, and the stat file of all but the
\* fifth.
WithinBound(chain) == {k \in 1..Len(chain) : k <= 5}
Readable(chain) ==
    \A k \in WithinBound(chain) :
        chain[k].cmdlineOk /\ (k < 5 => chain[k].statOk)

C20_HandoffOrder ==
    (dz.kind = "systemv" /\ dz.walk.isInitd) =>
        LET calls == dz.calls
            opens == ToolAt(calls, "os.OpenFile")
            execs == ToolAt(calls, "cmd.Start")
            writes == ToolAt(calls, "WriteString")
        IN
        /\ dz.mode = "handoff"
        /\ \A i \in 1..Len(calls) :
              calls[i].tool \in {"log.SetOutput", "os.Executable", "os.OpenFile",
                                 "cmd.Start", "WriteString"}
        /\ Cardinality(opens) <= 1 /\ Cardinality(execs) <= 1
        /\ Cardinality(writes) <= 1
        /\ \A o \in opens :
              /\ calls[o].args[2] = "O_CREATE|O_TRUNC|O_WRONLY"
              /\ calls[o].args[1] \in
                    {"/run/test.pid",
                     "/var/run/" \o SubSeq(dz.walk.scriptPath, 13,
                                           Len(dz.walk.scriptPath)) \o ".pid"}
        /\ \A e \in execs :
              /\ \E o \in opens :
                    /\ o < e /\ calls[o].exitCode = 0
                    /\ calls[e].data = <<calls[o].args[1]>>
              /\ calls[e].args = <<host.exePath>> \o dz.args
        /\ \A w \in writes :
              /\ \E e \in execs : e < w /\ calls[e].exitCode = 0
              /\ \E o \in opens : calls[w].args = <<calls[o].args[1]>>
              /\ calls[w].exitCode = 0 => calls[w].data = <<"child pid">>
        /\ dz.pc = "returned" =>
              (dz.ret = Nil <=> \E w \in writes : calls[w].exitCode = 0)
        /\ (\E w \in writes : TRUE) => dz.pc = "returned"

\* C20 witness: a handoff that went through and returned nil, of a process
\* that was started with one argument.
C20_Witness ==
    /\ dz.kind = "systemv" /\ dz.walk.isInitd /\ dz.pc = "returned"
    /\ dz.ret = Nil /\ dz.args = <<"-v">>
    /\ \E w \in ToolAt(dz.calls, "WriteString") : dz.calls[w].exitCode = 0

-----------------------------------------------------------------------------
(* The detached System V daemon and the failures of the handoff.           *)

\* C21: when the detached System V daemon (not interactive, no init.d
\* ancestor) was handed the PID file as descriptor 3, every return of
\* RunUntilExit (after Start() failed, after Stop() failed, after a clean
\* stop) is preceded by a truncation of descriptor 3 to length 0, made after
\* the last callback, and leaves the PID file empty.
C21_PidFileTruncated ==
    (dz.kind = "systemv" /\ dz.mode = "daemon" /\ dz.fd3 = "pidfile"
       /\ dz.pc = "returned") =>
        LET calls == dz.calls
            truncs == ToolAt(calls, "Truncate")
        IN
        /\ dz.pidFile = ""
        /\ Cardinality(truncs) = 1
        /\ \A i \in truncs :
              /\ calls[i].args = <<"fd3", "0">> /\ calls[i].exitCode = 0
              /\ \A j \in ToolAt(calls, "Start") \cup ToolAt(calls, "Stop") : j < i
              /\ \A j \in ToolAt(calls, "Close") : i < j
        /\ ToolAt(calls, "Start") # {}

\* C21 witness: the detached daemon returned the error of Start() after it
\* truncated the PID file, which is empty.
C21_Witness ==
    /\ dz.kind = "systemv" /\ dz.mode = "daemon" /\ dz.fd3 = "pidfile"
    /\ dz.pc = "returned" /\ dz.ret = "start failed" /\ dz.pidFile = ""
    /\ \E i \in ToolAt(dz.calls, "Truncate") : dz.calls[i].exitCode = 0

\* C22: in a System V run that is not interactive, a failure of the walk of
\* the ancestors, of os.Executable, of the opening of the PID file or of the
\* start of the child makes RunUntilExit return an error, and Start() is not
\* called; the child is not started when the PID file could not be opened
\* (nor when the executable path or the walk failed).
C22_HandoffFailures ==
    LET calls == dz.calls
        opens == ToolAt(calls, "os.OpenFile")
        execs == ToolAt(calls, "cmd.Start")
        walkFailed == dz.chain # <<>> /\ dz.walk.err # Nil
        exeFailed == \E x \in ToolAt(calls, "os.Executable") : calls[x].exitCode # 0
        openFailed == \E o \in opens : calls[o].exitCode # 0
        execFailed == \E e \in execs : calls[e].exitCode # 0
    IN (dz.kind = "systemv" /\ (walkFailed \/ exeFailed \/ openFailed \/ execFailed)) =>
        /\ dz.pc = "returned" /\ dz.ret # Nil /\ dz.ret # "pending"
        /\ ToolAt(calls, "Start") = {} /\ ToolAt(calls, "Stop") = {}
        /\ (walkFailed \/ exeFailed \/ openFailed) => execs = {}
        /\ (walkFailed \/ exeFailed) => opens = {}
        /\ ToolAt(calls, "WriteString") = {}
        /\ walkFailed =>
              HasPrefix(dz.ret, "failed to determine if init.d started the process - ")
        /\ exeFailed =>
              HasPrefix(dz.ret, "failed to get executable path when exec'ing daemon - ")
        /\ openFailed => HasPrefix(dz.ret, "failed to open pid file - ")
        /\ execFailed => HasPrefix(dz.ret, "failed to exec daemon process - ")

\* C22 witness: a handoff whose PID file could not be opened; no child was
\* started and RunUntilExit returned the error.
C22_Witness ==
    /\ dz.kind = "systemv" /\ dz.walk.isInitd /\ dz.pc = "returned"
    /\ \E o \in ToolAt(dz.calls, "os.OpenFile") : dz.calls[o].exitCode = 1
    /\ ToolAt(dz.calls, "cmd.Start") = {}
    /\ dz.ret = "failed to open pid file - permission denied"

(***************************************************************************)
(* The Windows service callback.                                           *)
(***************************************************************************)
ServiceRun == dz.kind = "windows" /\ dz.mode = "service"
FailedAt(calls, name) == {i \in ToolAt(calls, name) : calls[i].exitCode # 0}
ReportedAt(calls, state) ==
    {i \in ToolAt(calls, "changes<-") : calls[i].args[1] = state}
InterrogateAt(calls) ==
    {i \in ToolAt(calls, "<-r") : calls[i].args[1] = "Interrogate"}

\* C23: when Start() fails in the Windows callback, the service never
\* reports Running, reads no control request and never calls Stop(); the
\* callback returns a service-specific exit code that is not zero, and
\* RunUntilExit returns the error of Start(), whatever svc.Run returned.
C23_StartFailsInCallback ==
    LET calls == dz.calls IN
    \A i \in FailedAt(calls, "Start") : ServiceRun =>
        /\ ReportedAt(calls, "Running") = {}
        /\ \A j \in ToolAt(calls, "changes<-") : Len(calls[j].args) = 1
        /\ ToolAt(calls, "<-r") = {}
        /\ ToolAt(calls, "Stop") = {} /\ dz.pc # "inStop"
        /\ Len(dz.svcExit) = 2 /\ dz.svcExit[1] /\ dz.svcExit[2] # 0
        /\ dz.pc = "returned" /\ dz.ret = calls[i].data[1]

\* C23 witness: Start() failed in the callback while a Stop request was
\* waiting, and svc.Run returned an error of its own.
C23_Witness ==
    /\ ServiceRun /\ dz.pc = "returned"
    /\ FailedAt(dz.calls, "Start") # {}
    /\ FailedAt(dz.calls, "svc.Run returns") # {}
    /\ Len(dz.reqs) >= 1 /\ dz.reqs[1].Cmd = "Stop"
    /\ dz.ret = "start failed"

\* C24: in the Windows callback every Stop or Shutdown request that is read
\* is followed at once by the report of StopPending, and Stop() is called
\* only after that report; when Stop() succeeds the callback returns
\* (false, 0) with no error stored, when it fails the callback returns a
\* service-specific exit code that is not zero.
C24_StopPendingBeforeStop ==
    LET calls == dz.calls IN
    ServiceRun =>
        /\ \A i \in StopRequestAt(calls) :
              /\ i < Len(calls)
              /\ calls[i + 1].tool = "changes<-"
              /\ calls[i + 1].args = <<"StopPending">>
              /\ ReportedAt(calls, "Running") # {}
              /\ \A j \in ReportedAt(calls, "Running") : j < i
        /\ \A j \in ToolAt(calls, "Stop") :
              /\ \E i \in StopRequestAt(calls) : i + 1 < j
              /\ calls[j].exitCode = 0 =>
                    (dz.svcExit = <<FALSE, 0>> /\ dz.lastErr = Nil)
              /\ calls[j].exitCode # 0 =>
                    (Len(dz.svcExit) = 2 /\ dz.svcExit[1] /\ dz.svcExit[2] # 0)
        /\ dz.pc = "inStop" =>
              (calls[Len(calls)].tool = "changes<-"
                 /\ calls[Len(calls)].args = <<"StopPending">>)
        /\ ReportedAt(calls, "StopPending") # {} => StopRequestAt(calls) # {}

\* C24 witness: the callback read Shutdown, reported StopPending, and
\* Stop() failed.
C24_Witness ==
    /\ ServiceRun /\ dz.pc = "returned"
    /\ \E i \in StopRequestAt(dz.calls) : dz.calls[i].args[1] = "Shutdown"
    /\ FailedAt(dz.calls, "Stop") # {}
    /\ dz.svcExit = <<TRUE, 2>>

\* C25: in the Windows callback every Interrogate request that is read is
\* answered at once by reporting exactly the status the request carries;
\* Start() is not called after it, Stop() only for a Stop or Shutdown
\* request read later, and right after the answer the callback is still in
\* its loop and has not returned.
C25_InterrogateEchoed ==
    LET calls == dz.calls IN
    \A i \in InterrogateAt(calls) : ServiceRun =>
        /\ i < Len(calls)
        /\ calls[i + 1].tool = "changes<-"
        /\ calls[i + 1].args = calls[i].data
        /\ \A j \in ToolAt(calls, "Start") : j < i
        /\ \A j \in ToolAt(calls, "Stop") :
              j > i => \E k \in StopRequestAt(calls) : i < k /\ k < j
        /\ i + 1 = Len(calls) => (dz.pc = "loop" /\ dz.svcExit = <<>>)
        /\ (i + 1 = Len(calls) /\ dz.reqs # <<>>) => ENABLED SvcHandle

\* C25 witness: the callback answered an Interrogate request that carried
\* a status other than the one it reported itself, and a second request is
\* waiting.
C25_Witness ==
    /\ ServiceRun /\ dz.pc = "loop" /\ dz.reqs # <<>>
    /\ \E i \in InterrogateAt(dz.calls) :
          /\ i + 1 = Len(dz.calls)
          /\ dz.calls[i].data = <<"StartPending", "">>
          /\ dz.calls[i + 1].args = <<"StartPending", "">>

\* C26: every read and every write of lastErr happens between a Lock and
\* an Unlock of the mutex; when svc.Run has returned, RunUntilExit returns
\* the error of Start() or Stop() if one of them failed, whatever svc.Run
\* returned, and otherwise what svc.Run returned (its error or nil).
C26_StartStopErrorPrecedence ==
    LET calls == dz.calls
        access == ToolAt(calls, "lastErr=") \cup ToolAt(calls, "lastErr")
        failed == FailedAt(calls, "Start") \cup FailedAt(calls, "Stop")
    IN ServiceRun =>
        /\ \A i \in access :
              /\ 1 < i /\ i < Len(calls)
              /\ calls[i - 1].tool = "Lock" /\ calls[i + 1].tool = "Unlock"
        /\ Cardinality(ToolAt(calls, "svc.Run returns")) <= 1
        /\ \A r \in ToolAt(calls, "svc.Run returns") :
              /\ dz.pc = "returned"
              /\ \A i \in failed : dz.ret = calls[i].data[1]
              /\ failed = {} =>
                    dz.ret = (IF calls[r].exitCode = 0 THEN Nil
                              ELSE calls[r].data[1])
              /\ \A i \in ToolAt(calls, "lastErr") :
                    /\ i > r
                    /\ calls[i].args[1] # Nil => dz.ret = calls[i].args[1]
        /\ (dz.pc = "returned" /\ ToolAt(calls, "svc.Run") # {}) =>
              ToolAt(calls, "svc.Run returns") # {}

\* C26 witness: Stop() failed in the callback, svc.Run returned an error
\* of its own, and RunUntilExit returned the error of Stop().
C26_Witness ==
    /\ ServiceRun /\ dz.pc = "returned"
    /\ FailedAt(dz.calls, "Stop") # {}
    /\ FailedAt(dz.calls, "svc.Run returns") # {}
    /\ dz.ret = "stop failed"

(***************************************************************************)
(* stopAndWait of the Windows Controller, step by step.                    *)
(*                                                                         *)
(* The variable sw is one call of stopAndWait:                             *)
(*   pc        "called", "select" (blocked in the select of the loop),     *)
(*             "returned"                                                  *)
(*   reg       the registry as defaultServiceStopTimeout finds it          *)
(*   timeout   the timeout in milliseconds                                 *)
(*   now       milliseconds since time.After and time.NewTicker were       *)
(*             called, not counted beyond the deadline                     *)
(*   buffered  whether a tick waits in the channel of the ticker           *)
(*   state     the State of the status observed last                       *)
(*   controls  the stop controls sent                                      *)
(*   ret       the error stopAndWait returned                              *)
(***************************************************************************)
timeDuration == 50
defaultTimeout == 20000

Max(a, b) == IF a >= b THEN a ELSE b
Min(a, b) == IF a <= b THEN a ELSE b

DigitOf(c) ==
    CASE c = "0" -> 0 [] c = "1" -> 1 [] c = "2" -> 2 [] c = "3" -> 3
      [] c = "4" -> 4 [] c = "5" -> 5 [] c = "6" -> 6 [] c = "7" -> 7
      [] c = "8" -> 8 [] c = "9" -> 9 [] OTHER -> -1

RECURSIVE ParseDigits(_, _)
ParseDigits(s, acc) ==
    IF s = "" THEN [ok |-> TRUE, n |-> acc]
    ELSE LET v == DigitOf(SubSeq(s, 1, 1)) IN
         IF v < 0 THEN [ok |-> FALSE, n |-> 0]
         ELSE ParseDigits(SubSeq(s, 2, Len(s)), acc * 10 + v)

\* strconv.Atoi: an optional sign and at least one decimal digit.
Atoi(s) ==
    LET signed == s # "" /\ SubSeq(s, 1, 1) \in {"+", "-"}
        digits == IF signed THEN SubSeq(s, 2, Len(s)) ELSE s
        p == ParseDigits(digits, 0)
    IN IF digits = "" \/ ~p.ok THEN [ok |-> FALSE, n |-> 0]
       ELSE [ok |-> TRUE,
             n |-> IF signed /\ SubSeq(s, 1, 1) = "-" THEN 0 - p.n ELSE p.n]

\* The registry: whether the key opens, whether it has the value
\* WaitToKillServiceTimeout, and the string of the value.
Registries ==
    {[open |-> FALSE, has |-> FALSE, sv |-> ""],
     [open |-> TRUE, has |-> FALSE, sv |-> ""]}
    \cup {[open |-> TRUE, has |-> TRUE, sv |-> v] :
            v \in {"20000", "150", "120", "0", "-100", "5s", ""}}

\* Mutant of defaultServiceStopTimeout: the value is taken as seconds.
defaultServiceStopTimeout_Seconds(reg) ==
    IF ~reg.open \/ ~reg.has \/ ~Atoi(reg.sv).ok THEN 0
    ELSE 1000 * Atoi(reg.sv).n

\* defaultServiceStopTimeout, in milliseconds: 0 when the key does not
\* open, the value cannot be read or is not an integer.
defaultServiceStopTimeout(reg) ==
    IF ~reg.open THEN 0
    ELSE IF ~reg.has THEN 0
    ELSE IF ~Atoi(reg.sv).ok THEN 0
    ELSE Atoi(reg.sv).n

\* The moment onTimeout fires: timeout + (timeDuration * 2).
Deadline(w) == w.timeout + (timeDuration * 2)

\* The moment the next tick can be received, and the moment the timeout
\* can be: select takes the one that is ready first, either when both are.
TickTime(w) ==
    IF w.buffered THEN w.now ELSE ((w.now \div timeDuration) + 1) * timeDuration
TimeoutTime(w) == Max(w.now, Deadline(w))

StopWaitInit ==
    /\ host = Host("windows", {}, 1, "absent")
    /\ cfg \in {c \in Configs(host) :
                  /\ c.StartType = StartImmediately /\ c.Arguments = <<>>
                  /\ c.RunAs = "" /\ ~c.UseNativeLogger}
    /\ ctl = NewController(cfg, host)
    /\ sys \in {s \in InitialSys(ctl.kind) : s.artifact = "absent"}
    /\ last = NoCall(sys)
    /\ prev = Summary(last)
    /\ ex = NoExecute
    /\ dz = NoRun
    /\ \E reg \in Registries :
          sw = [pc |-> "called", reg |-> reg, timeout |-> 0, now |-> 0,
                buffered |-> FALSE, state |-> "Running", controls |-> 0,
                ret |-> Nil]
    /\ hf = NoHandoff

StopWait(w) == sw' = w /\ UNCHANGED <<cfg, host, ctl, sys, last, prev, ex, dz, hf>>

\* The head of the loop: stopAndWait returns nil when the status observed
\* is Stopped and blocks in the select otherwise.
LoopHead(w) ==
    IF w.state = "Stopped" THEN [w EXCEPT !.pc = "returned", !.ret = Nil]
    ELSE [w EXCEPT !.pc = "select"]

\* stopAndWait up to the loop: the stop control, the timeout, the timer and
\* the ticker.
StopControl ==
    /\ sw.pc = "called"
    /\ \E res \in {"err", "StopPending", "Stopped"} :
          LET w == [sw EXCEPT !.controls = @ + 1] IN
          IF res = "err"
          THEN StopWait([w EXCEPT !.pc = "returned", !.ret = "Control(Stop) failed"])
          ELSE LET timeout == defaultServiceStopTimeout(sw.reg) IN
               StopWait(LoopHead([w EXCEPT !.state = res,
                        !.timeout = IF timeout = 0 THEN defaultTimeout
                                    ELSE timeout]))

\* The tick case of the select: the status is queried, which takes no time
\* or as long as one interval.
StopTick ==
    /\ sw.pc = "select"
    /\ TickTime(sw) <= TimeoutTime(sw)
    /\ \E res \in {"err", "StopPending", "Stopped"}, dur \in {0, timeDuration} :
          LET t == TickTime(sw)
              w == [sw EXCEPT !.now = Min(t + dur, Max(t, Deadline(sw))),
                              !.buffered = dur > 0]
          IN IF res = "err"
             THEN StopWait([w EXCEPT !.pc = "returned", !.ret = "query failed"])
             ELSE StopWait(LoopHead([w EXCEPT !.state = res]))

\* The timeout case of the select.
StopTimeout ==
    /\ sw.pc = "select"
    /\ TimeoutTime(sw) <= TickTime(sw)
    /\ StopWait([sw EXCEPT !.pc = "returned", !.now = TimeoutTime(sw),
                       !.ret = "service failed to stop after %s"])

StopWaitNext == StopControl \/ StopTick \/ StopTimeout

\* select takes one of the cases that are ready, at random when both are:
\* a case that stays ready is taken in the end.
StopWaitSpec ==
    /\ StopWaitInit /\ [][StopWaitNext]_vars
    /\ WF_vars(StopControl) /\ WF_vars(StopTick) /\ WF_vars(StopTimeout)

\* Whether defaultServiceStopTimeout can read an integer from the registry.
ReadableTimeout(reg) == reg.open /\ reg.has /\ Atoi(reg.sv).ok

\* What a call of stopAndWait does whatever the timeout is: one stop
\* control; nil exactly when the status observed last is Stopped; the
\* timeout error only once the timeout and the grace margin of two
\* intervals have elapsed.
StopAndWaitOutcome ==
    /\ sw.controls <= 1
    /\ sw.pc # "called" => sw.controls = 1
    /\ sw.pc = "returned" => (sw.ret = Nil <=> sw.state = "Stopped")
    /\ sw.pc = "select" => sw.state # "Stopped"
    /\ sw.ret = "service failed to stop after %s" =>
          (sw.pc = "returned" /\ sw.now >= sw.timeout + 2 * timeDuration)
    /\ sw.ret = "query failed" => sw.pc = "returned"

\* C27 as stated: stopAndWait sends one stop control and polls until it
\* returns, which it always does; it returns nil only when it observed
\* Stopped, and an error when a query fails or when the timeout elapses
\* first, the timeout being the registry value whenever that can be read and
\* 20 s otherwise, plus the grace margin.
C27_StopAndWait ==
    /\ [](sw.pc # "none" =>
            /\ StopAndWaitOutcome
            /\ sw.pc \in {"select", "returned"} /\ sw.controls = 1
                 /\ sw.ret # "Control(Stop) failed" =>
                  sw.timeout = IF ReadableTimeout(sw.reg) THEN Atoi(sw.reg.sv).n
                               ELSE defaultTimeout)
    /\ <>(sw.pc \in {"none", "returned"})

\* C27 amended: as C27, with the timeout being the registry value when
\* that can be read as an integer other than 0, and 20 s otherwise.
C27_StopAndWaitAmended ==
    /\ [](sw.pc # "none" =>
            /\ StopAndWaitOutcome
            /\ sw.pc \in {"select", "returned"} /\ sw.controls = 1
                 /\ sw.ret # "Control(Stop) failed" =>
                  sw.timeout = IF ReadableTimeout(sw.reg) /\ Atoi(sw.reg.sv).n # 0
                               THEN Atoi(sw.reg.sv).n ELSE defaultTimeout)
    /\ <>(sw.pc \in {"none", "returned"})

\* C27 witness: the registry value is "0", the service never stopped, and
\* stopAndWait returned the timeout error 20 s and two intervals after the
\* stop control.
C27_Witness ==
    /\ sw.pc = "returned" /\ sw.reg.has /\ sw.reg.sv = "0"
    /\ sw.ret = "service failed to stop after %s"
    /\ sw.timeout = defaultTimeout
    /\ sw.now = defaultTimeout + 2 * timeDuration

(***************************************************************************)
(* Install() of the Windows Controller.                                    *)
(***************************************************************************)
\* The calls of the last operation that created a service.
CreatedAt(calls) ==
    {i \in ToolAt(calls, "CreateService") : calls[i].exitCode = 0}
\* The calls of the last operation after call i that failed: the start or
\* the registration of the Event Log source.
FailedStepAfter(calls, i) ==
    {j \in ToolAt(calls, "Start") \cup ToolAt(calls, "eventlog.InstallAsEventCreate") :
        j > i /\ calls[j].exitCode # 0}

\* What Install() of the Windows Controller does after a step that follows
\* CreateService failed: it returns the error of that step, and Delete is
\* the one call it makes between the failure and the return.
InstallRollsBack ==
    \A i \in CreatedAt(last.calls) : \A j \in FailedStepAfter(last.calls, i) :
        /\ last.err # Nil
        /\ Len(last.calls) = j + 1
        /\ last.calls[j + 1].tool = "Delete"
        /\ last.calls[j].tool = "Start" => last.err = "Start failed"
        /\ last.calls[j].tool = "eventlog.InstallAsEventCreate" =>
              last.err = "registry key already exists"

\* C28 as stated: when a step of a Windows Install() after CreateService
\* fails, the service is deleted before the error is returned, and no
\* Install() that created a service and failed leaves it registered.
C28_InstallRollback ==
    (ctl.kind = "windows" /\ last.op = "Install") =>
        /\ InstallRollsBack
        /\ (CreatedAt(last.calls) # {} /\ last.err # Nil) =>
              sys.artifact = "absent"

\* C28 amended: when a step of a Windows Install() after CreateService
\* fails, Delete is called before the error is returned and what Delete
\* returns is not looked at: the service is gone when Delete succeeded and
\* still registered when Delete failed. An Install() that created a service
\* fails only in one of these steps.
C28_InstallRollbackAmended ==
    (ctl.kind = "windows" /\ last.op = "Install") =>
        /\ InstallRollsBack
        /\ (CreatedAt(last.calls) # {} /\ last.err # Nil) =>
              /\ \E i \in CreatedAt(last.calls) :
                    FailedStepAfter(last.calls, i) # {}
              /\ \A d \in ToolAt(last.calls, "Delete") :
                    /\ last.calls[d].exitCode = 0 => sys.artifact = "absent"
                    /\ last.calls[d].exitCode # 0 => sys.artifact = "file"
        /\ (CreatedAt(last.calls) # {} /\ last.err = Nil) =>
              (sys.artifact = "file" /\ ToolAt(last.calls, "Delete") = {})

\* C28 witness: an Install() with StartImmediately that created and started
\* the service, could not register the Event Log source, deleted the
\* service and returned the error.
C28_Witness ==
    /\ ctl.kind = "windows" /\ last.op = "Install"
    /\ cfg.StartType = StartImmediately
    /\ CreatedAt(last.calls) # {}
    /\ \E j \in ToolAt(last.calls, "Start") : last.calls[j].exitCode = 0
    /\ \E j \in ToolAt(last.calls, "eventlog.InstallAsEventCreate") :
          last.calls[j].exitCode # 0
    /\ \E d \in ToolAt(last.calls, "Delete") : last.calls[d].exitCode = 0
    /\ last.err # Nil /\ sys.artifact = "absent"

\* The errors of the password lookup of a Windows Install().
PasswordErrors ==
    {"the 'password' operating system specific option must be specified",
     "the 'password' option must be a GetPassword function",
     "failed to get password when installing daemon"}

\* Whether the password of the last Install() could not be had: RunAs is
\* set and the option is missing, is not a GetPassword function, or the
\* function returned an error.
PasswordFailure ==
    /\ cfg.RunAs # ""
    /\ \/ cfg.PasswordOption \in {"missing", "badtype"}
       \/ \E i \in ToolAt(last.calls, "GetPassword") : last.calls[i].exitCode # 0

\* The calls of the last operation that reached the operating system.
OsCalls(calls) == {i \in 1..Len(calls) : calls[i].kind # "cb"}

\* C29 as stated: a Windows Install() with RunAs set whose password cannot
\* be had reports that failure without any call to the operating system and
\* creates no service; with RunAs empty the provider is not called.
C29_PasswordBeforeOs ==
    (ctl.kind = "windows" /\ last.op = "Install") =>
        /\ (cfg.RunAs # "" /\ cfg.PasswordOption \in {"missing", "badtype"}) =>
              /\ last.err \in PasswordErrors
              /\ OsCalls(last.calls) = {}
        /\ \A i \in ToolAt(last.calls, "GetPassword") :
              last.calls[i].exitCode # 0 =>
                 /\ last.err \in PasswordErrors
                 /\ OsCalls(last.calls) = {}
        /\ PasswordFailure => ToolAt(last.calls, "CreateService") = {}
        /\ cfg.RunAs = "" => ToolAt(last.calls, "GetPassword") = {}

\* C29 amended: Install() connects to the service manager first. When that
\* fails its error is returned and the password is not looked up; otherwise
\* a password that cannot be had is reported with its own error, the
\* connection being the one call to the operating system, and no service is
\* created. With RunAs empty the provider is not called.
C29_PasswordAfterConnect ==
    (ctl.kind = "windows" /\ last.op = "Install") =>
        /\ Len(last.calls) >= 1 /\ last.calls[1].tool = "mgr.Connect"
        /\ last.calls[1].exitCode # 0 =>
              (Len(last.calls) = 1 /\ last.err = "Access is denied.")
        /\ (last.calls[1].exitCode = 0 /\ cfg.RunAs # "") =>
              /\ cfg.PasswordOption = "missing" =>
                    /\ last.calls = <<MgrConnect(TRUE).call>>
                    /\ last.err = "the 'password' operating system specific option must be specified"
              /\ cfg.PasswordOption = "badtype" =>
                    /\ last.calls = <<MgrConnect(TRUE).call>>
                    /\ last.err = "the 'password' option must be a GetPassword function"
              /\ cfg.PasswordOption = "provider" =>
                    /\ Len(last.calls) >= 2 /\ last.calls[2].tool = "GetPassword"
                    /\ last.calls[2].exitCode # 0 =>
                          /\ Len(last.calls) = 2
                          /\ last.err = "failed to get password when installing daemon"
        /\ PasswordFailure =>
              (last.err # Nil /\ ToolAt(last.calls, "CreateService") = {})
        /\ Cardinality(ToolAt(last.calls, "GetPassword")) <= 1
        /\ cfg.RunAs = "" => ToolAt(last.calls, "GetPassword") = {}

\* C29 witness: an Install() with RunAs set and no password option, which
\* connected to the service manager and returned the error of the missing
\* option with no service created.
C29_Witness ==
    /\ ctl.kind = "windows" /\ last.op = "Install"
    /\ cfg.RunAs # "" /\ cfg.PasswordOption = "missing"
    /\ last.calls = <<MgrConnect(TRUE).call>>
    /\ last.err = "the 'password' operating system specific option must be specified"
    /\ sys.artifact = "absent"

(***************************************************************************)
(* NewController, with the calls it makes to the operating system.         *)
(***************************************************************************)
\* The os.Stat calls of searchForExeInPaths, up to the first file found.
RECURSIVE statFrom(_, _, _, _)
statFrom(exeName, dirSearchPaths, i, files) ==
    IF i > Len(dirSearchPaths) THEN <<>>
    ELSE LET filePath == dirSearchPaths[i] \o "/" \o exeName IN
         IF filePath \in files THEN <<Call("fs", "os.Stat", <<filePath>>, 0)>>
         ELSE <<Call("fs", "os.Stat", <<filePath>>, 1)>>
                \o statFrom(exeName, dirSearchPaths, i + 1, files)

\* The calls of osutil.IsSystemd: the search for systemctl and, when it is
\* found, one run of it.
IsSystemdCalls(h) ==
    LET found == searchForExeInPaths(systemctlExeName, systemctlExeDirPaths, h.files) IN
    statFrom(systemctlExeName, systemctlExeDirPaths, 1, h.files)
      \o (IF found.err = Nil
          THEN <<Call("cli", found.path, <<>>, h.systemctlExit)>> ELSE <<>>)

\* The calls of osutil.IsSystemv: the search for service, one run of it when
\* it is found (its exit code is not looked at), and the look at
\* /etc/redhat-release when it answered with its usage.
IsSystemvCalls(h) ==
    LET found == searchForExeInPaths(serviceExeName, serviceExeDirPaths, h.files) IN
    statFrom(serviceExeName, serviceExeDirPaths, 1, h.files)
      \o (IF found.err # Nil THEN <<>>
          ELSE <<Call("cli", found.path, <<>>, 1)>>
                 \o (IF h.serviceUsage
                     THEN <<Call("fs", "os.Stat", <<"/etc/redhat-release">>,
                                 IF h.redhatRelease = "absent" THEN 1 ELSE 0)>>
                     ELSE <<>>))

\* The calls NewController makes before the constructor of the platform's
\* Controller is entered: none on Windows, os.Executable on macOS,
\* os.Executable and the detection of the daemon manager on Linux.
NewControllerCalls(h) ==
    LET exe == Call("proc", "os.Executable", <<>>, IF h.exeOk THEN 0 ELSE 1) IN
    CASE h.os = "windows" -> <<>>
      [] h.os = "darwin" -> <<exe>>
      [] OTHER -> IF ~h.exeOk THEN <<exe>>
                  ELSE <<exe>> \o IsSystemdCalls(h)
                         \o (IF IsSystemd(h).ok THEN <<>> ELSE IsSystemvCalls(h))

\* A ControllerConfig before NewController is called with it: with and
\* without an executable path, a description and a daemon ID, with a
\* description that holds the placeholder delimiter or a second line, and
\* with a daemon ID that holds a slash.
BuildInit ==
    /\ host \in DaemonHosts
    /\ \E c \in Configs(host), exePath \in {"", "/opt/app"},
          description \in {"a daemon", "", "up ^ down",
                            "a daemon\n" \o pidFilePathVar \o "=/tmp/other.pid"},
          name \in {"", "test", "net/test"} :
          /\ c.Arguments = <<>> /\ c.RunAs = "" /\ ~c.UseNativeLogger
          /\ cfg = [c EXCEPT !.ExePath = exePath, !.Description = description,
                             !.DaemonID = IF name = "test" THEN @ ELSE name,
                             !.idParts = IF name = "test" THEN @
                                         ELSE IF name = "" THEN <<>> ELSE <<name>>]
    /\ ctl = [kind |-> "none", err |-> Nil]
    /\ sys \in {s \in InitialSys(NewController(cfg, host).kind) :
                  s.artifact = "absent"}
    /\ last = NoCall(sys)
    /\ prev = Summary(last)
    /\ ex = NoExecute
    /\ dz = NoRun
    /\ sw = NoWait
    /\ hf = NoHandoff

\* NewController is called.
DoNewController ==
    /\ last.op # "NewController"
    /\ ctl' = NewController(cfg, host)
    /\ last' = [op |-> "NewController", status |-> NoStatus, err |-> ctl'.err,
                calls |-> NewControllerCalls(host), daemonBefore |-> sys.daemon]
    /\ prev' = Summary(last)
    /\ UNCHANGED <<cfg, host, sys, ex, dz, sw, hf>>

\* The Daemonizer, started by the init.d script the Controller rendered,
\* works out the path of its PID file: from the script, or else the default
\* path for the base name of the script's path.
DoPidFilePath ==
    /\ last.op = "NewController" /\ ctl.kind = "systemv"
    /\ \E openOk \in BOOLEAN :
          LET initdScriptPath == ctl.initFilePath
              found == pidFilePathFromInitdScript(Join(ctl.initContents, ""), openOk)
              pidFilePath == IF found.err # Nil
                             THEN defaultPidFilePath(Base(initdScriptPath))
                             ELSE found.path
          IN last' = [op |-> "pidFilePath", status |-> pidFilePath,
                      err |-> found.err,
                      calls |-> <<Call("fs", "os.Open", <<initdScriptPath>>,
                                       IF openOk THEN 0 ELSE 1)>>,
                      daemonBefore |-> sys.daemon]
    /\ prev' = Summary(last)
    /\ UNCHANGED <<cfg, host, ctl, sys, ex, dz, sw, hf>>

BuildNext == DoNewController \/ DoPidFilePath

BuildSpec == BuildInit /\ [][BuildNext]_vars

\* Whether the Controller of the host takes the executable path from the
\* configuration: the Windows and the System V Controller do, the systemd
\* and the launchd Controller ask os.Executable.
ExePathRequired(h) ==
    \/ h.os = "windows"
    \/ h.os = "linux" /\ h.exeOk /\ ~IsSystemd(h).ok /\ IsSystemv(h).ok

DelimAt(script) ==
    UNION {{<<i, k>> : k \in {n \in 1..Len(script[i]) :
                                  SubSeq(script[i], n, n) = "^"}} :
           i \in 1..Len(script)}

\* Whether NewController has come to the constructor of the System V
\* Controller with a configuration that is valid.
SystemvBuilt ==
    /\ last.op = "NewController" /\ host.os = "linux" /\ host.exeOk
    /\ ~IsSystemd(host).ok /\ IsSystemv(host).ok
    /\ cfg.ExePath # ""

\* What holds of every System V Controller that was constructed: its init
\* script has no placeholder delimiter; and when a value of the
\* configuration holds the delimiter, construction returns the error of the
\* placeholders and no Controller.
ScriptHasNoDelim ==
    /\ (last.op = "NewController" /\ ctl.kind = "systemv") =>
          DelimAt(ctl.initContents) = {}
    /\ (SystemvBuilt /\ HoldsDelim(cfg.Description)) =>
          /\ ctl.kind = "none"
          /\ ctl.err = "failed to replace all placeholders in daemon init.d script"

\* C31 as stated: a System V Controller that was constructed holds an init
\* script without the placeholder delimiter; a delimiter that remains is a
\* construction error; and a configuration that omits a field a placeholder
\* uses (the daemon ID, the description, the executable path) is a
\* construction error.
C31_ScriptComplete ==
    /\ ScriptHasNoDelim
    /\ (last.op = "NewController" /\ host.os = "linux" /\ host.exeOk
          /\ ~IsSystemd(host).ok /\ IsSystemv(host).ok
          /\ (cfg.DaemonID = "" \/ cfg.Description = "" \/ cfg.ExePath = "")) =>
          ctl.err # Nil

\* C31 amended: as C31, but of the fields a placeholder uses only an
\* omitted executable path is a construction error; an omitted daemon ID or
\* description is rendered as empty text, leaves no delimiter behind and is
\* no error of the constructor's.
C31_ScriptCompleteAmended ==
    /\ ScriptHasNoDelim
    /\ (last.op = "NewController" /\ host.os = "linux" /\ host.exeOk
          /\ ~IsSystemd(host).ok /\ IsSystemv(host).ok) =>
          /\ cfg.ExePath = "" =>
                ctl.err = "executable path must be provided to controller config"
          /\ (cfg.ExePath # "" /\ ~HoldsDelim(cfg.Description)) =>
                ctl.err \notin {"executable path must be provided to controller config",
                                "failed to replace all placeholders in daemon init.d script"}

\* C31 witness: NewController on a System V host with a description that
\* holds the delimiter returned the error of the placeholders.
C31_Witness ==
    /\ SystemvBuilt /\ cfg.Description = "up ^ down"
    /\ ctl.kind = "none"
    /\ ctl.err = "failed to replace all placeholders in daemon init.d script"

(***************************************************************************)
(* The interactive run of the System V Daemonizer.                         *)
(***************************************************************************)
\* C32: a run of the System V Daemonizer with PS1 set makes no walk of its
\* ancestors, opens and truncates no file, starts no child and does not
\* touch the logger, whatever its ancestors are and whatever a PID file
\* holds: its calls are Start(), signal.Notify, the read of one SIGINT or
\* SIGTERM, signal.Stop and Stop(), in this order, and the PID file keeps
\* its contents.
C32_InteractiveSystemv ==
    /\ [](LET calls == dz.calls IN
          (dz.kind = "systemv" /\ dz.ps1 /\ dz.pc \notin {"ready", "none"}) =>
             /\ dz.mode = "interactive"
             /\ dz.walk.inspected = 0 /\ ~dz.walk.isInitd /\ dz.walk.err = Nil
             /\ dz.fd3 = "none"
             /\ \A i \in 1..Len(calls) : calls[i].kind \in {"app", "sig"}
             /\ Len(calls) <= 5
             /\ \A i \in 1..Len(calls) :
                   calls[i].tool = <<"Start", "signal.Notify", "<-",
                                     "signal.Stop", "Stop">>[i]
             /\ \A i \in ToolAt(calls, "<-") :
                   calls[i].args[1] \in {"SIGINT", "SIGTERM"})
    /\ [][(dz.kind = "systemv" /\ dz.ps1 /\ dz.pc # "ready")
            => dz'.pidFile = dz.pidFile]_vars

\* C32 witness: an interactive run under an init.d script, with a PID file
\* that holds a PID and the native logger asked for, has read SIGTERM and
\* returned from Stop().
C32_Witness ==
    /\ dz.kind = "systemv" /\ dz.ps1 /\ dz.native /\ dz.pc = "returned"
    /\ \E i \in 1..Len(dz.chain) : dz.chain[i] \in InitdAncestors
    /\ dz.chain[1] \in InitdAncestors
    /\ dz.pidFile = "child pid"
    /\ ToolAt(dz.calls, "Stop") # {}
    /\ \E i \in ToolAt(dz.calls, "<-") : dz.calls[i].args[1] = "SIGTERM"

(***************************************************************************)
(* The states the Windows service callback reports.                        *)
(***************************************************************************)
\* The answers to Interrogate, and the reports the callback makes of its own.
EchoAt(calls) == {i \in ToolAt(calls, "changes<-") : i - 1 \in InterrogateAt(calls)}
OwnReportAt(calls, state) == ReportedAt(calls, state) \ EchoAt(calls)

\* C33: of its own the Windows callback reports StartPending, Running and
\* StopPending only, each at most once and in this order, StartPending
\* first of all and always when the callback has run; it answers
\* Interrogate only after it reported Running, and reports nothing at all
\* after StopPending.
C33_ReportedStates ==
    LET calls == dz.calls
        all == ToolAt(calls, "changes<-")
        sp == OwnReportAt(calls, "StartPending")
        rn == OwnReportAt(calls, "Running")
        st == OwnReportAt(calls, "StopPending")
    IN ServiceRun =>
        /\ all \ EchoAt(calls) = sp \cup rn \cup st
        /\ Cardinality(sp) <= 1 /\ Cardinality(rn) <= 1 /\ Cardinality(st) <= 1
        /\ \A i \in all : \E s \in sp : s <= i
        /\ \A r \in rn : \E s \in sp : s < r
        /\ \A p \in st : \E r \in rn : r < p
        /\ \A e \in EchoAt(calls) : \E r \in rn : r < e
        /\ \A p \in st : \A i \in all : i <= p
        /\ (dz.pc \in {"start", "inStart", "loop", "inStop"} \/ dz.svcExit # <<>>) =>
              Cardinality(sp) = 1
        /\ dz.pc \in {"loop", "inStop"} => Cardinality(rn) = 1
        /\ dz.pc = "loop" => st = {}

\* C33 witness: a run that reported StartPending and Running, answered an
\* Interrogate, reported StopPending and returned from Stop().
C33_Witness ==
    /\ ServiceRun /\ dz.pc = "returned"
    /\ EchoAt(dz.calls) # {}
    /\ OwnReportAt(dz.calls, "StopPending") # {}
    /\ ToolAt(dz.calls, "Stop") # {}

\* The requests the callback read that are not Interrogate, Stop or
\* Shutdown.
OtherRequestAt(calls) ==
    {i \in ToolAt(calls, "<-r") :
        calls[i].args[1] \notin {"Interrogate", "Stop", "Shutdown"}}

\* C39: the Windows callback, in its loop, does nothing for a request that
\* is not Interrogate, Stop or Shutdown: the next thing it does is to read
\* the next request; right after the request it is in its loop and has not
\* returned, and a request that waits can be read. Stop() is called only
\* for a Stop or Shutdown request, Start() never after a request.
C39_OtherRequestsIgnored ==
    LET calls == dz.calls IN
    ServiceRun =>
        /\ \A i \in OtherRequestAt(calls) :
              /\ ReportedAt(calls, "Running") # {}
              /\ i < Len(calls) => calls[i + 1].tool = "<-r"
              /\ i = Len(calls) =>
                    /\ dz.pc = "loop" /\ dz.svcExit = <<>> /\ dz.lastErr = Nil
                    /\ dz.reqs # <<>> => ENABLED SvcHandle
              /\ \A j \in ToolAt(calls, "Start") : j < i
              /\ \A j \in ToolAt(calls, "Stop") :
                    j > i => \E k \in StopRequestAt(calls) : i < k /\ k < j
        /\ \A j \in ToolAt(calls, "Stop") : StopRequestAt(calls) # {}

\* C39 witness: the callback read a Pause and after it a Stop, for which it
\* called Stop() and returned.
C39_Witness ==
    /\ ServiceRun /\ dz.pc = "returned"
    /\ \E i \in OtherRequestAt(dz.calls) :
          /\ dz.calls[i].args[1] = "Pause"
          /\ dz.calls[i + 1].tool = "<-r" /\ dz.calls[i + 1].args[1] = "Stop"
    /\ ToolAt(dz.calls, "Stop") # {}

\* The systemctl commands among calls.
SystemctlAt(calls) ==
    {i \in 1..Len(calls) : calls[i].kind = "cli" /\ calls[i].tool = ctl.systemctlPath}

\* The unit file is the one of the user's own systemd instance.
PerUserUnit ==
    ctl.unitFilePath = host.homeDir \o "/.config/systemd/user/"
                           \o cfg.DaemonID \o ".service"

\* C37: a systemd Controller passes '--user', as the first argument, to
\* every systemctl command of Status, Start, Stop, Install and Uninstall
\* exactly when its unit file is the per-user one; the unit file is the
\* per-user one exactly when RunAs is set, names the current user, and the
\* run-only-when-logged-in option is present; otherwise the unit file is
\* /etc/systemd/system/<id>.service and no command carries '--user'.
C37_UserArgument ==
    ctl.kind = "systemd" =>
        /\ PerUserUnit <=> (/\ Len(cfg.RunAs) > 0
                            /\ cfg.RunAs = host.currentUser
                            /\ cfg.RunOnlyWhenLoggedIn)
        /\ ~PerUserUnit =>
              ctl.unitFilePath = "/etc/systemd/system/" \o cfg.DaemonID \o ".service"
        /\ \A i \in SystemctlAt(last.calls) :
              LET args == last.calls[i].args IN
              /\ PerUserUnit <=> (Len(args) > 0 /\ args[1] = userArgument)
              /\ \A j \in 2..Len(args) : args[j] # userArgument
        /\ last.op \in {"Start", "Stop"} => SystemctlAt(last.calls) # {}

\* C37 witness: an Install() of a per-user unit with StartImmediately ran
\* daemon-reload, start and enable, each with '--user'.
C37_Witness ==
    /\ ctl.kind = "systemd" /\ PerUserUnit /\ last.op = "Install"
    /\ last.err = Nil /\ Cardinality(SystemctlAt(last.calls)) = 3
    /\ \A i \in SystemctlAt(last.calls) : last.calls[i].args[1] = userArgument
    /\ prev.op = "Uninstall"

\* The last operation is a Windows Install() that created the service and
\* returned an error.
FailedInstallCreated ==
    /\ ctl.kind = "windows" /\ last.op = "Install"
    /\ CreatedAt(last.calls) # {} /\ last.err # Nil

\* The calls of the last operation that started the service.
StartedAt(calls) == {j \in ToolAt(calls, "Start") : calls[j].exitCode = 0}

\* C40 as stated: after a Windows Install() that created the service and
\* returned an error, the service is neither registered nor running.
C40_FailedInstallNotRunning ==
    FailedInstallCreated =>
        /\ sys.artifact = "absent"
        /\ sys.daemon = "Stopped"

\* C40 amended: a Windows Install() that created the service and returned an
\* error asked for the service's deletion and never for a stop: a service
\* it started is still StartPending or Running after the error, deleted or
\* not, and a service it could not start is Stopped.
C40_FailedInstallKeepsRunning ==
    FailedInstallCreated =>
        /\ ToolAt(last.calls, "Control") = {}
        /\ Cardinality(ToolAt(last.calls, "Delete")) = 1
        /\ StartedAt(last.calls) # {} => sys.daemon \in {"StartPending", "Running"}
        /\ StartedAt(last.calls) = {} => sys.daemon = "Stopped"

\* C40 witness: an Install() with StartImmediately started the service,
\* could not register the Event Log source, deleted the service and left
\* its process running.
C40_Witness ==
    /\ FailedInstallCreated /\ cfg.StartType = StartImmediately
    /\ StartedAt(last.calls) # {}
    /\ last.err = "registry key already exists"
    /\ sys.artifact = "absent" /\ sys.daemon = "Running"

\* Whether a text holds a character.
HoldsChar(s, c) == \E i \in 1..Len(s) : SubSeq(s, i, i) = c

\* The values of the configuration that are rendered into the init script.
RenderedValues ==
    {cfg.DaemonID, cfg.Description, cfg.ExePath, cfg.RunAs, argumentsAsString(cfg)}

\* The path the rendered script names as its PID file.
ScriptPidFile == "/var/run/" \o cfg.DaemonID \o ".pid"

-----------------------------------------------------------------------------
(***************************************************************************)
(* The System V handoff as the processes it makes.                         *)
(*                                                                         *)
(* hf.procs are the processes of one start by the init.d script, oldest    *)
(* first: process 1 is the one the script started, process g + 1 is the    *)
(* child process g started with daemon.Start(). Each runs                  *)
(* systemvDaemonizer.RunUntilExit (without PS1) on its own, and the steps   *)
(* of different processes interleave. hf.chain are the ancestors of        *)
(* process 1, hf.pidFile is what the PID file holds: 0 when it is empty,    *)
(* g when it holds the PID of process g.                                   *)
(***************************************************************************)
\* The processes one start may make; a handoff is not made past it.
MaxGen == 3

\* One process: where it is in RunUntilExit, the parent PID os.Getppid()
\* gave it (-1 before the call, 0 for the init process, else the number of
\* the parent), whether its walk found an init.d ancestor, whether it
\* called Start(), and what RunUntilExit returned.
Proc(pc, ppid, found) ==
    [pc |-> pc, ppid |-> ppid, found |-> found, started |-> FALSE, ret |-> Nil]

Alive(g) == hf.procs[g].pc # "exited"

\* The init process, which a process is handed to when its parent ends.
InitProcess == Ancestor(<<"/sbin/init">>, TRUE, TRUE)

\* What /proc holds for process g: the command line of the executable while
\* it runs; when it has ended, an empty command line while its parent has
\* not waited for it yet (reaped = FALSE), nothing after.
ProcEntry(g, reaped) ==
    IF Alive(g) THEN Ancestor(<<host.exePath>>, TRUE, TRUE)
    ELSE IF reaped THEN Ancestor(<<>>, FALSE, FALSE)
    ELSE Ancestor(<<>>, TRUE, TRUE)

RECURSIVE AncestorsOf(_)
\* The ancestors of the running process g, its parent first: the chain of
\* the init.d start for process 1, the parent and the parent's ancestors
\* while the parent runs, the init process once the parent has ended.
AncestorsOf(g) ==
    IF g = 1 THEN hf.chain
    ELSE IF Alive(g - 1) THEN <<ProcEntry(g - 1, FALSE)>> \o AncestorsOf(g - 1)
    ELSE <<InitProcess>>

\* The chain the walk of process g reads, which starts at the PID that
\* os.Getppid() returned before.
WalkedChain(g, reaped) ==
    IF hf.procs[g].ppid = 0 THEN <<InitProcess>>
    ELSE <<ProcEntry(g - 1, reaped)>>
            \o (IF g = 2 \/ Alive(g - 2) THEN AncestorsOf(g - 1) ELSE <<InitProcess>>)

\* Process 1 was started by the init.d script and its walk found the script.
HandoffInit ==
    /\ host = Host("linux", {"/sbin/service", "/sbin/chkconfig"}, 1, "file")
    /\ cfg \in {c \in Configs(host) :
                  /\ c.StartType = StartImmediately /\ c.Arguments = <<>>
                  /\ c.RunAs = "" /\ ~c.UseNativeLogger}
    /\ ctl = NewController(cfg, host)
    /\ sys \in {s \in InitialSys(ctl.kind) : s.artifact = "absent"}
    /\ last = NoCall(sys)
    /\ prev = Summary(last)
    /\ ex = NoExecute
    /\ dz = NoRun
    /\ sw = NoWait
    /\ \E chain \in {c \in Chains : isInitdOurParent(c).isInitd} :
          hf = [chain |-> chain, procs |-> <<Proc("handoff", 0, TRUE)>>,
                pidFile |-> 0]

\* One step of process g that leaves it as p and the PID file as pidFile.
Step(g, p, pidFile) ==
    /\ hf' = [hf EXCEPT !.procs[g] = p, !.pidFile = pidFile]
    /\ UNCHANGED <<cfg, host, ctl, sys, last, prev, ex, dz, sw>>

\* os.Getppid() at the head of isInitdOurParent: the parent while it runs,
\* the init process once the parent has ended.
ChildGetppid ==
    \E g \in 2..Len(hf.procs) :
        /\ hf.procs[g].pc = "getppid"
        /\ Step(g, [hf.procs[g] EXCEPT !.pc = "walk",
                                       !.ppid = IF Alive(g - 1) THEN g - 1 ELSE 0],
                hf.pidFile)

\* The rest of isInitdOurParent in a child and what RunUntilExit does with
\* its result: hand off again, return the error, or go on as the daemon
\* with descriptor 3 as the PID file.
ChildWalk ==
    \E g \in 2..Len(hf.procs), reaped \in BOOLEAN :
        /\ hf.procs[g].pc = "walk"
        /\ (Alive(g - 1) \/ hf.procs[g].ppid = 0) => ~reaped
        /\ LET walk == isInitdOurParent(WalkedChain(g, reaped)) IN
           IF walk.isInitd
           THEN Step(g, [hf.procs[g] EXCEPT !.pc = "handoff", !.found = TRUE],
                     hf.pidFile)
           ELSE IF walk.err # Nil
           THEN Step(g, [hf.procs[g] EXCEPT !.pc = "returned",
                            !.ret = "failed to determine if init.d started the process - "
                                       \o walk.err],
                     hf.pidFile)
           ELSE Step(g, [hf.procs[g] EXCEPT !.pc = "daemon"], hf.pidFile)

\* os.OpenFile(pidFilePath, O_CREATE|O_TRUNC|O_WRONLY) of a handoff: the PID
\* file is emptied.
ProcOpen ==
    \E g \in 1..Len(hf.procs), ok \in BOOLEAN :
        /\ hf.procs[g].pc = "handoff"
        /\ IF ok THEN Step(g, [hf.procs[g] EXCEPT !.pc = "opened"], 0)
           ELSE Step(g, [hf.procs[g] EXCEPT !.pc = "returned",
                            !.ret = "failed to open pid file - permission denied"],
                     hf.pidFile)

\* daemon.Start() of a handoff: the child runs from here on.
ProcExec ==
    \E g \in 1..Len(hf.procs) :
        /\ hf.procs[g].pc = "opened"
        /\ g = Len(hf.procs) /\ g < MaxGen
        /\ hf' = [hf EXCEPT !.procs = Append([@ EXCEPT ![g].pc = "execed"],
                                             Proc("getppid", -1, FALSE))]
        /\ UNCHANGED <<cfg, host, ctl, sys, last, prev, ex, dz, sw>>

\* pidFile.WriteString of a handoff: the PID of the child is written at the
\* head of the PID file, and RunUntilExit returns.
ProcWrite ==
    \E g \in 1..Len(hf.procs), ok \in BOOLEAN :
        /\ hf.procs[g].pc = "execed"
        /\ IF ok THEN Step(g, [hf.procs[g] EXCEPT !.pc = "returned"], g + 1)
           ELSE Step(g, [hf.procs[g] EXCEPT !.pc = "returned",
                            !.ret = "failed to write daemon pid to pid file - write failed"],
                     hf.pidFile)

\* application.Start() of the detached daemon; when it fails RunUntilExit
\* returns the error, and the deferred function empties the PID file.
ProcStart ==
    \E g \in 1..Len(hf.procs), err \in {Nil, "start failed"} :
        /\ hf.procs[g].pc = "daemon"
        /\ IF err = Nil
           THEN Step(g, [hf.procs[g] EXCEPT !.pc = "waiting", !.started = TRUE],
                     hf.pidFile)
           ELSE Step(g, [hf.procs[g] EXCEPT !.pc = "returned", !.started = TRUE,
                                            !.ret = err], 0)

\* The detached daemon gets SIGINT or SIGTERM while it is blocked on the
\* channel: Stop() is called, RunUntilExit returns, and the deferred function
\* empties the PID file.
ProcStop ==
    \E g \in 1..Len(hf.procs), err \in {Nil, "stop failed"} :
        /\ hf.procs[g].pc = "waiting"
        /\ Step(g, [hf.procs[g] EXCEPT !.pc = "returned", !.ret = err], 0)

\* The process ends after RunUntilExit returned.
ProcExit ==
    \E g \in 1..Len(hf.procs) :
        /\ hf.procs[g].pc = "returned"
        /\ Step(g, [hf.procs[g] EXCEPT !.pc = "exited"], hf.pidFile)

HandoffNext ==
    \/ ChildGetppid \/ ChildWalk \/ ProcOpen \/ ProcExec \/ ProcWrite
    \/ ProcStart \/ ProcStop \/ ProcExit

HandoffSpec == HandoffInit /\ [][HandoffNext]_vars

\* The children of the handoffs.
Children == 2..Len(hf.procs)

\* C34: a child of the System V handoff finds no init.d ancestor, makes no
\* handoff of its own, and RunUntilExit returns in it only after Start()
\* was called; one start by the init.d script makes one child.
C34_ChildIsDaemon ==
    /\ Len(hf.procs) <= 2
    /\ \A g \in Children :
          /\ ~hf.procs[g].found
          /\ hf.procs[g].pc \notin {"handoff", "opened", "execed"}
          /\ hf.procs[g].pc \in {"returned", "exited"} => hf.procs[g].started

\* What holds of a child whose parent had ended when the child asked for
\* its parent PID: it finds no init.d ancestor, makes no handoff, and
\* RunUntilExit returns in it only after Start() was called.
C34_OrphanIsDaemon ==
    \A g \in Children :
        hf.procs[g].ppid = 0 =>
            /\ ~hf.procs[g].found
            /\ hf.procs[g].pc \notin {"handoff", "opened", "execed"}
            /\ hf.procs[g].pc \in {"returned", "exited"} => hf.procs[g].started

\* A child walked its ancestors while its parent ran, found the init.d
\* script and started a child of its own.
C34_SecondHandoff ==
    /\ Len(hf.procs) = 3 /\ hf.procs[2].found /\ hf.procs[2].ppid = 1

\* C35: once a child of the handoff has ended, the PID file does not hold
\* its PID.
C35_NoStalePid ==
    \A g \in Children : hf.procs[g].pc = "exited" => hf.pidFile # g

\* The child was the daemon, ended and emptied the PID file before its
\* parent wrote the child's PID to it.
C35_StalePid ==
    /\ Len(hf.procs) = 2 /\ hf.procs[2].pc = "exited" /\ hf.procs[2].started
    /\ hf.procs[1].pc \in {"returned", "exited"} /\ hf.pidFile = 2

-----------------------------------------------------------------------------
(* Signals after Start().                                                  *)

\* C36: in a run of a Unix Daemonizer, every SIGINT or SIGTERM that arrives
\* after Start() returned without error (before signal.Notify, between
\* signal.Notify and the receive, or during the receive) is read from the
\* channel, which is what leads to Stop() and the return of RunUntilExit.
C36_SignalsAfterStartRead ==
    [][(/\ dz.kind \in {"systemd", "systemv", "darwin"}
        /\ dz.pc \in {"started", "notified", "waiting"}
        /\ dz'.nsig = dz.nsig + 1)
          => dz'.pc = "received"]_vars

\* A signal arrived between signal.Notify and the receive and was dropped:
\* the run is blocked on the channel, Stop() was not called.
C36_SignalLost ==
    /\ dz.kind \in {"systemd", "systemv", "darwin"}
    /\ dz.pc = "waiting" /\ dz.nsig = 1
    /\ SignalReadAt(dz.calls) = {} /\ ToolAt(dz.calls, "Stop") = {}
    /\ \E i \in ToolAt(dz.calls, "Start") : dz.calls[i].exitCode = 0

====
